---- MODULE Spec2Model ----
(***************************************************************************)
(* Movement and collision core of lev-hide-and-seek.                       *)
(*                                                                         *)
(* Numbers.  The program computes with JavaScript doubles.  Every length   *)
(* the physics step handles is of the form (a + b*sqrt(2)) / 15 pixels     *)
(* with integers a and b: positions and level geometry are whole pixels,   *)
(* PLAYER_SPEED * dt is a whole number of fifteenths of a pixel for        *)
(* dt = 1/60 (the game loop) and dt = 1/10, and a diagonal direction is    *)
(* divided by sqrt(2).  The model computes exactly in that ring: a number  *)
(* is a record [a, b] standing for a + b*sqrt(2) fifteenths of a pixel.    *)
(***************************************************************************)
EXTENDS Integers, Sequences, FiniteSets, TLC

\* fifteenths of a pixel per pixel
UNIT == 3 * 5

----------------------------------------------------------------------------
(* Exact arithmetic on a + b*sqrt(2) *)

Num(a, b) == [a |-> a, b |-> b]
Px(p) == Num(p * UNIT, 0)
Zero == Num(0, 0)
Add(u, v) == Num(u.a + v.a, u.b + v.b)
Sub(u, v) == Num(u.a - v.a, u.b - v.b)
Neg(u) == Num(-u.a, -u.b)
Scale(k, u) == Num(k * u.a, k * u.b)

\* p/q > 1 + sqrt(2), for p >= 0, q > 0  (1 + sqrt(2) = [2; 2, 2, ...])
RECURSIVE GtSilver(_, _)
GtSilver(p, q) ==
    IF p < 2 * q THEN FALSE
    ELSE IF p >= 3 * q THEN TRUE
    ELSE (p - 2 * q > 0) /\ ~GtSilver(q, p - 2 * q)

\* p > q*sqrt(2), for p >= 0, q > 0
GtSqrt2(p, q) ==
    IF p < q THEN FALSE
    ELSE IF p >= 2 * q THEN TRUE
    ELSE (p - q > 0) /\ ~GtSilver(q, p - q)

\* Math.sign
Sign(u) ==
    IF u.a = 0 /\ u.b = 0 THEN 0
    ELSE IF u.a >= 0 /\ u.b >= 0 THEN 1
    ELSE IF u.a <= 0 /\ u.b <= 0 THEN -1
    ELSE IF u.a > 0 THEN (IF GtSqrt2(u.a, -u.b) THEN 1 ELSE -1)
    ELSE (IF GtSqrt2(-u.a, u.b) THEN -1 ELSE 1)

Lt(u, v) == Sign(Sub(u, v)) = -1
Le(u, v) == Sign(Sub(u, v)) <= 0
MinN(u, v) == IF Lt(v, u) THEN v ELSE u
MaxN(u, v) == IF Lt(u, v) THEN v ELSE u

\* largest k with k*k <= n
RECURSIVE ISqrtIter(_, _, _)
ISqrtIter(n, lo, hi) ==
    IF lo >= hi THEN lo
    ELSE LET mid == (lo + hi + 1) \div 2
         IN  IF mid * mid <= n THEN ISqrtIter(n, mid, hi)
             ELSE ISqrtIter(n, lo, mid - 1)

\* floor(m * sqrt(2)) for m >= 0: the root of 2*m*m, bracketed by
\* 1.414 < sqrt(2) < 1.415
FloorSqrt2Nat(m) ==
    IF m = 0 THEN 0
    ELSE ISqrtIter(2 * m * m, (1414 * m) \div 1000, (1415 * m) \div 1000 + 1)

\* floor(b * sqrt(2))
FloorSqrt2(b) ==
    IF b >= 0 THEN FloorSqrt2Nat(b) ELSE -(FloorSqrt2Nat(-b)) - 1

\* floor of a number, in fifteenths of a pixel
Floor(u) == u.a + FloorSqrt2(u.b)

\* ~~(u / (px pixels)): division truncated toward zero
TruncDiv(u, px) ==
    IF Sign(u) >= 0 THEN Floor(u) \div (px * UNIT)
    ELSE -(Floor(Neg(u)) \div (px * UNIT))

----------------------------------------------------------------------------
(* Constants of the program *)

PLAYER_SPEED == 512
PLAYER_COLLIDER_SIZE == 64
PLAYER_COLLIDER_OFFSET == 16
TILE_SIZE == 160

INPUT_LEFT == 1
INPUT_RIGHT == 2
INPUT_UP == 4
INPUT_DOWN == 8

\* input & bit
HasBit(input, bit) == (input \div bit) % 2 = 1

Masks == 0..15

\* the time steps dt = 1/den seconds: the game loop's 1/60, and 1/10
DtDens == {10, 60}

----------------------------------------------------------------------------
(* Input decoding and displacement, common to every revision of stepPhysics *)

B2N(b) == IF b THEN 1 ELSE 0

\* mutant: the LEFT and RIGHT bits exchanged
DirXSwapped(input) == -B2N(HasBit(input, INPUT_RIGHT)) + B2N(HasBit(input, INPUT_LEFT))

DirX(input) == -B2N(HasBit(input, INPUT_LEFT)) + B2N(HasBit(input, INPUT_RIGHT))
DirY(input) == -B2N(HasBit(input, INPUT_UP)) + B2N(HasBit(input, INPUT_DOWN))

\* if (+dir.x && +dir.y) the direction is divided by its length sqrt(2)
Diagonal(input) == DirX(input) # 0 /\ DirY(input) # 0

\* PLAYER_SPEED * dt, in fifteenths of a pixel
SpeedDt(den) == (PLAYER_SPEED * UNIT) \div den

\* mutant: the direction is not divided by its length
DeltaUnnormalized(c, diag, den) == Num(c * SpeedDt(den), 0)

\* dir.c * PLAYER_SPEED * dt for the component c of the (normalised) direction;
\* d / sqrt(2) = (d / 2) * sqrt(2)
Delta(c, diag, den) ==
    IF diag THEN Num(0, c * (SpeedDt(den) \div 2)) ELSE Num(c * SpeedDt(den), 0)

\* the returned dir, doubled so that it stays in the ring: an axis component
\* is +-1 (doubled: +-2), a diagonal one is +-1/sqrt(2) (doubled: +-sqrt(2))
Dir2C(c, diag) == IF diag THEN Num(0, c) ELSE Num(2 * c, 0)
Dir2(input) == [x |-> Dir2C(DirX(input), Diagonal(input)),
                y |-> Dir2C(DirY(input), Diagonal(input))]

DeltaX(input, den) == Delta(DirX(input), Diagonal(input), den)
DeltaY(input, den) == Delta(DirY(input), Diagonal(input), den)

----------------------------------------------------------------------------
(* Tile levels *)

NoLevel == [kind |-> "null"]
TileLevel(w, h, blocks) == [kind |-> "tiles", width |-> w, height |-> h, blocks |-> blocks]

\* Level.check: this.blocks[x + y * rows]; an index outside the array reads
\* undefined, which is falsy
Check(level, x, y) ==
    LET rows == level.width \div TILE_SIZE
        i == x + y * rows
    IN  IF i >= 0 /\ i < Len(level.blocks) THEN level.blocks[i + 1] ELSE FALSE

\* the four corner tiles of a collider and the occupancy test on them
Corners(cx, cy) ==
    LET x0 == TruncDiv(cx, TILE_SIZE)
        x1 == TruncDiv(Add(cx, Px(PLAYER_COLLIDER_SIZE)), TILE_SIZE)
        y0 == TruncDiv(cy, TILE_SIZE)
        y1 == TruncDiv(Add(cy, Px(PLAYER_COLLIDER_SIZE)), TILE_SIZE)
    IN  [topLeft |-> <<x0, y0>>, topRight |-> <<x1, y0>>,
         botLeft |-> <<x0, y1>>, botRight |-> <<x1, y1>>]

Colliding(level, c) ==
    \/ Check(level, c.topLeft[1], c.topLeft[2])
    \/ Check(level, c.topRight[1], c.topRight[2])
    \/ Check(level, c.botLeft[1], c.botLeft[2])
    \/ Check(level, c.botRight[1], c.botRight[2])

\* mutant: the horizontal check is made even when dX is zero
ResolveXNoSkip(level, x, y, dX) ==
    LET c == Corners(Add(Add(x, Px(PLAYER_COLLIDER_OFFSET)), dX),
                     Add(y, Px(PLAYER_COLLIDER_SIZE)))
    IN  IF Colliding(level, c)
        THEN IF Sign(dX) = 1
             THEN Px(c.topLeft[1] * TILE_SIZE + PLAYER_COLLIDER_SIZE
                     + PLAYER_COLLIDER_OFFSET - 1)
             ELSE Px(c.topRight[1] * TILE_SIZE - PLAYER_COLLIDER_OFFSET)
        ELSE Add(x, dX)

\* horizontal collision resolution
ResolveX(level, x, y, dX) ==
    IF Sign(dX) = 0 THEN x
    ELSE LET c == Corners(Add(Add(x, Px(PLAYER_COLLIDER_OFFSET)), dX),
                          Add(y, Px(PLAYER_COLLIDER_SIZE)))
         IN  IF Colliding(level, c)
             THEN IF Sign(dX) = 1
                  THEN Px(c.topLeft[1] * TILE_SIZE + PLAYER_COLLIDER_SIZE
                          + PLAYER_COLLIDER_OFFSET - 1)
                  ELSE Px(c.topRight[1] * TILE_SIZE - PLAYER_COLLIDER_OFFSET)
             ELSE Add(x, dX)

\* mutant: a downward collision snaps with the formula of the upward one
ResolveYSnapsBelow(level, x, y, dY) ==
    IF Sign(dY) = 0 THEN y
    ELSE LET c == Corners(Add(x, Px(PLAYER_COLLIDER_OFFSET)),
                          Add(Add(y, Px(PLAYER_COLLIDER_SIZE)), dY))
         IN  IF Colliding(level, c)
             THEN Px(c.botLeft[2] * TILE_SIZE - PLAYER_COLLIDER_SIZE)
             ELSE Add(y, dY)

\* vertical collision resolution
ResolveY(level, x, y, dY) ==
    IF Sign(dY) = 0 THEN y
    ELSE LET c == Corners(Add(x, Px(PLAYER_COLLIDER_OFFSET)),
                          Add(Add(y, Px(PLAYER_COLLIDER_SIZE)), dY))
         IN  IF Colliding(level, c)
             THEN IF Sign(dY) = 1
                  THEN Px(c.topLeft[2] * TILE_SIZE + (PLAYER_COLLIDER_SIZE \div 2) - 1)
                  ELSE Px(c.botLeft[2] * TILE_SIZE - PLAYER_COLLIDER_SIZE)
             ELSE Add(y, dY)

\* the vertical resolution runs on the x the horizontal one left
ThenVertical(d, level, nx, y, dY) == [dir |-> d, x |-> nx, y |-> ResolveY(level, nx, y, dY)]

\* stepPhysics, tile revision: horizontal resolution, then vertical on the result
StepPhysicsTile(alive, x, y, input, level, den) ==
    LET dX == DeltaX(input, den)
        dY == DeltaY(input, den)
    IN  IF alive /\ level.kind # "null"
        THEN ThenVertical(Dir2(input), level, ResolveX(level, x, y, dX), y, dY)
        ELSE [dir |-> Dir2(input), x |-> Add(x, dX), y |-> Add(y, dY)]


----------------------------------------------------------------------------
(* Vector2, Rectangle, Polygon *)

Mul(u, v) == Num(u.a * v.a + 2 * u.b * v.b, u.a * v.b + u.b * v.a)

Vec(x, y) == [x |-> x, y |-> y]
VecPx(px, py) == Vec(Px(px), Px(py))
VSub(p, q) == Vec(Sub(p.x, q.x), Sub(p.y, q.y))
VAdd(p, q) == Vec(Add(p.x, q.x), Add(p.y, q.y))
Dot(p, q) == Add(Mul(p.x, q.x), Mul(p.y, q.y))
VMul(p, k) == Vec(Mul(p.x, k), Mul(p.y, k))

\* Vector2.normalize of a vector parallel to an axis (the edges of the level
\* polygons are): its length is the absolute value of the non-zero component
Normalize(v) ==
    IF Sign(v.x) = 0 THEN Vec(Zero, Num(Sign(v.y), 0))
    ELSE Vec(Num(Sign(v.x), 0), Zero)

Rectangle(x, y, w, h) == [x |-> x, y |-> y, width |-> w, height |-> h]

RectVertices(r) ==
    << Vec(r.x, r.y),
       Vec(Add(r.x, r.width), r.y),
       Vec(Add(r.x, r.width), Add(r.y, r.height)),
       Vec(r.x, Add(r.y, r.height)) >>

\* the values of f over the vertices vs, folded with Math.min / Math.max
RECURSIVE MinOver(_, _, _)
MinOver(vs, i, acc) ==
    IF i > Len(vs) THEN acc ELSE MinOver(vs, i + 1, MinN(acc, vs[i]))

RECURSIVE MaxOver(_, _, _)
MaxOver(vs, i, acc) ==
    IF i > Len(vs) THEN acc ELSE MaxOver(vs, i + 1, MaxN(acc, vs[i]))

MinOf(vs) == MinOver(vs, 2, vs[1])
MaxOf(vs) == MaxOver(vs, 2, vs[1])

Xs(vertices) == [i \in 1..Len(vertices) |-> vertices[i].x]
Ys(vertices) == [i \in 1..Len(vertices) |-> vertices[i].y]

\* Polygon.aabb
PolygonAABB(vertices) ==
    Rectangle(MinOf(Xs(vertices)), MinOf(Ys(vertices)),
              Sub(MaxOf(Xs(vertices)), MinOf(Xs(vertices))),
              Sub(MaxOf(Ys(vertices)), MinOf(Ys(vertices))))

----------------------------------------------------------------------------
(* Narrow phase *)

PointInRectangle(point, r) ==
    /\ Le(r.x, point.x) /\ Le(point.x, Add(r.x, r.width))
    /\ Le(r.y, point.y) /\ Le(point.y, Add(r.y, r.height))

\* 0 <= n/d <= 1 for d # 0
InUnit(n, d) ==
    IF Sign(d) = 1 THEN Sign(n) >= 0 /\ Le(n, d)
    ELSE Sign(n) <= 0 /\ Le(d, n)

\* linesIntersect: null (falsy) for parallel lines
LinesIntersect(p1, v1, p2, v2) ==
    LET denominator == Sub(Mul(v2.y, v1.x), Mul(v2.x, v1.y))
        un == Sub(Mul(v2.x, Sub(p1.y, p2.y)), Mul(v2.y, Sub(p1.x, p2.x)))
        tn == Sub(Mul(v1.x, Sub(p1.y, p2.y)), Mul(v1.y, Sub(p1.x, p2.x)))
    IN  IF Sign(denominator) = 0 THEN FALSE
        ELSE InUnit(tn, denominator) /\ InUnit(un, denominator)

Wrap(i, n) == (i % n) + 1

DetectCollision(r, vertices) ==
    \/ \E i \in 1..Len(vertices) : PointInRectangle(vertices[i], r)
    \/ \E i \in 1..Len(vertices) : \E j \in 1..4 :
         LET rv == RectVertices(r)
             p1 == vertices[i]
             p3 == rv[j]
         IN  LinesIntersect(p1, VSub(vertices[Wrap(i, Len(vertices))], p1),
                            p3, VSub(rv[Wrap(j, 4)], p3))

\* the projections of the vertices vs onto the normal
Projections(normal, vs) == [k \in 1..Len(vs) |-> Dot(normal, vs[k])]

\* what resolveCollision finds on the normal of edge i
\* the unit normal of edge i
EdgeNormal(vertices, i) ==
    LET edge == VSub(vertices[Wrap(i, Len(vertices))], vertices[i])
    IN  Normalize(Vec(Neg(edge.y), edge.x))

\* separation, overlap and oriented normal from the two projected ranges
Ranges(normal, minRect, maxRect, minPoly, maxPoly) ==
    [separated |-> Lt(maxRect, minPoly) \/ Lt(maxPoly, minRect),
     overlap |-> Sub(MinN(maxRect, maxPoly), MaxN(minRect, minPoly)),
     normal |-> IF Lt(minRect, minPoly) THEN VMul(normal, Num(-1, 0)) ELSE normal]

Projected(normal, pr, pp) == Ranges(normal, MinOf(pr), MaxOf(pr), MinOf(pp), MaxOf(pp))

OnNormal(normal, r, vertices) ==
    Projected(normal, Projections(normal, RectVertices(r)), Projections(normal, vertices))

EdgeAxis(r, vertices, i) == OnNormal(EdgeNormal(vertices, i), r, vertices)

\* the mtv before the first edge: (Number.MAX_VALUE, Number.MAX_VALUE), whose
\* length overflows to Infinity
MtvMax == [inf |-> TRUE, v |-> Vec(Zero, Zero), len |-> Zero]

\* the mtv after an axis e that does not separate: normal * overlap when
\* the overlap is shorter than the mtv
Shortest(mtv, e) ==
    IF mtv.inf \/ Lt(e.overlap, mtv.len)
    THEN [inf |-> FALSE, v |-> VMul(e.normal, e.overlap), len |-> e.overlap]
    ELSE mtv

\* mutant: no early return of the zero vector on a separating axis
RECURSIVE ResolveFromNoReturn(_, _, _, _)
ResolveFromNoReturn(r, vertices, i, mtv) ==
    IF i > Len(vertices) THEN mtv
    ELSE ResolveFromNoReturn(r, vertices, i + 1,
                             Shortest(mtv, EdgeAxis(r, vertices, i)))

\* the loop of resolveCollision from edge i on; mtv.length of normal * overlap
\* is the overlap, the normal being a unit vector
RECURSIVE ResolveFrom(_, _, _, _)
ResolveFrom(r, vertices, i, mtv) ==
    IF i > Len(vertices) THEN mtv
    ELSE LET e == EdgeAxis(r, vertices, i)
         IN  IF e.separated THEN [inf |-> FALSE, v |-> Vec(Zero, Zero), len |-> Zero]
             ELSE ResolveFrom(r, vertices, i + 1, Shortest(mtv, e))

\* resolveCollision: the minimum translation vector
ResolveCollision(r, vertices) == ResolveFrom(r, vertices, 1, MtvMax).v

----------------------------------------------------------------------------
(* Broad phase *)

CheckAABBs(a, b) ==
    /\ Le(a.x, Add(b.x, b.width))
    /\ Le(b.x, Add(a.x, a.width))
    /\ Le(a.y, Add(b.y, b.height))
    /\ Le(b.y, Add(a.y, a.height))

\* the collider box of a player at (x, y)
ColliderAABB(x, y) ==
    Rectangle(Add(x, Px(PLAYER_COLLIDER_OFFSET)), Add(y, Px(PLAYER_COLLIDER_SIZE)),
              Px(PLAYER_COLLIDER_SIZE), Px(PLAYER_COLLIDER_SIZE))

\* the correction one polygon of the loop adds to endPosition; startAABB and
\* endAABB are built once, before the loop
PolygonMtv(startAABB, endAABB, vertices) ==
    IF /\ CheckAABBs(PolygonAABB(vertices), startAABB)
          \/ CheckAABBs(PolygonAABB(vertices), endAABB)
       /\ DetectCollision(endAABB, vertices)
    THEN ResolveCollision(endAABB, vertices)
    ELSE Vec(Zero, Zero)

\* mutant: mtv declared outside the loop, so a skipped polygon adds the
\* correction of the polygon before it again
RECURSIVE BroadStale(_, _, _, _, _, _)
BroadStale(startAABB, endAABB, polygons, i, endPosition, last) ==
    IF i > Len(polygons) THEN endPosition
    ELSE LET p == polygons[i]
             hit == /\ CheckAABBs(PolygonAABB(p), startAABB)
                       \/ CheckAABBs(PolygonAABB(p), endAABB)
                    /\ DetectCollision(endAABB, p)
             mtv == IF hit THEN ResolveCollision(endAABB, p) ELSE last
         IN  BroadStale(startAABB, endAABB, polygons, i + 1,
                        VAdd(endPosition, mtv), mtv)

BroadFromStale(startAABB, endAABB, polygons, i, endPosition) ==
    BroadStale(startAABB, endAABB, polygons, i, endPosition, Vec(Zero, Zero))

RECURSIVE BroadFrom(_, _, _, _, _)
BroadFrom(startAABB, endAABB, polygons, i, endPosition) ==
    IF i > Len(polygons) THEN endPosition
    ELSE BroadFrom(startAABB, endAABB, polygons, i + 1,
                   VAdd(endPosition, PolygonMtv(startAABB, endAABB, polygons[i])))

\* mutant: endAABB rebuilt from the corrected position before each polygon
RECURSIVE BroadMoving(_, _, _, _)
BroadMoving(startAABB, polygons, i, endPosition) ==
    IF i > Len(polygons) THEN endPosition
    ELSE BroadMoving(startAABB, polygons, i + 1,
                     VAdd(endPosition,
                          PolygonMtv(startAABB,
                                     ColliderAABB(endPosition.x, endPosition.y),
                                     polygons[i])))

BroadPhaseRebuildsAABB(startPosition, endPosition, polygons) ==
    BroadMoving(ColliderAABB(startPosition.x, startPosition.y), polygons, 1, endPosition)

BroadPhaseCollisionDetection(startPosition, endPosition, polygons) ==
    BroadFrom(ColliderAABB(startPosition.x, startPosition.y),
              ColliderAABB(endPosition.x, endPosition.y),
              polygons, 1, endPosition)

PolygonLevel(polygons) == [kind |-> "polygons", polygons |-> polygons]

\* level && level.polygons && level.polygons.length
HasPolygons(level) ==
    level.kind = "polygons" /\ Len(level.polygons) > 0

\* what stepPhysics returns: the direction and the end position
Returned(d, e) == [dir |-> d, x |-> e.x, y |-> e.y]

\* mutant: the player.alive test dropped from the branch condition
StepPhysicsIgnoresAlive(alive, x, y, input, level, den) ==
    LET dX == DeltaX(input, den)
        dY == DeltaY(input, den)
    IN  IF HasPolygons(level)
        THEN Returned(Dir2(input),
                      BroadPhaseCollisionDetection(Vec(x, y),
                          Vec(Add(x, dX), Add(y, dY)), level.polygons))
        ELSE [dir |-> Dir2(input), x |-> Add(x, dX), y |-> Add(y, dY)]

\* stepPhysics, polygon revision
StepPhysics(alive, x, y, input, level, den) ==
    LET dX == DeltaX(input, den)
        dY == DeltaY(input, den)
    IN  IF alive /\ HasPolygons(level)
        THEN Returned(Dir2(input),
                      BroadPhaseCollisionDetection(Vec(x, y),
                          Vec(Add(x, dX), Add(y, dY)), level.polygons))
        ELSE [dir |-> Dir2(input), x |-> Add(x, dX), y |-> Add(y, dY)]

----------------------------------------------------------------------------
(* State: one player driven through stepPhysics.  rev names the revision of *)
(* stepPhysics in use (tile grid or polygons); alive, level and dt are the  *)
(* arguments its caller holds fixed; pos is the player's (x, y); prev,      *)
(* input and dir record the position before the last step, its input mask   *)
(* and the direction it returned.                                           *)

VARIABLES rev, alive, level, dt, pos, prev, input, dir, ticks

\* The server: sockets is the set of connected socket ids; players,
\* playersInputs and playersPositions are its three dictionaries; serverLevel,
\* gameStarted and gameLoading its game state; intervals counts the running
\* setInterval(stepPhysics) timers and gameLoop says what the handle variable
\* holds; startTimeouts and restartTimeouts count the pending setTimeout
\* callbacks; fired counts the firings of the tick timer, received the socket
\* messages handled; emitted lists what the last handler emitted.
VARIABLES sockets, players, playersInputs, playersPositions, serverLevel,
          gameStarted, gameLoading, intervals, gameLoop,
          startTimeouts, restartTimeouts, fired, received, emitted

\* The client's game loop: previousTime and accumulatedTime are the fields of
\* Game, in thirds of a millisecond; calls lists the update and draw calls of
\* the last run.
VARIABLES previousTime, accumulatedTime, calls

\* The client's copy of the players: entities maps the ids the client knows to
\* their positions; positions is the last updatePositions message handled and
\* handled counts them.
VARIABLES entities, positions, handled

\* The seeker's sight: origin is the point the rays are cast from, sight the
\* polygon getSightPolygon returned for it, frames the number of frames drawn.
VARIABLES origin, sight, frames

\* One call of getIntersection and one of Vector2.normalize on their own:
\* probeRay and probeSegment are the arguments, probeIntersect is what
\* getIntersection returned for them, probeNormal the normalized normal of the
\* segment taken as a polygon edge, applied the functions already called.
VARIABLES probeRay, probeSegment, probeIntersect, probeNormal, applied

\* The client's view of the lobby: clientSocketId is the id of its socket,
\* updatedLobby the players of the last updateLobby message it handled, fresh
\* tells that it has handled none since its socket connected, and lobbies
\* counts the messages handled.  The entity table is entities.
VARIABLES clientSocketId, updatedLobby, fresh, lobbies

playerVars == <<rev, alive, level, dt, pos, prev, input, dir, ticks>>

loopVars == <<previousTime, accumulatedTime, calls>>

entityVars == <<entities, positions, handled>>

sightVars == <<origin, sight, frames>>

rayVars == <<probeRay, probeSegment, probeIntersect, probeNormal, applied>>

lobbyVars == <<clientSocketId, updatedLobby, fresh, lobbies>>

\* the client before its first frame and its first message
LoopIdle == previousTime = 0 /\ accumulatedTime = 0 /\ calls = << >>

EntitiesIdle == entities = << >> /\ positions = << >> /\ handled = 0

SightIdle == origin = <<0, 0>> /\ sight = << >> /\ frames = 0

RayIdle ==
    /\ probeRay = << >> /\ probeSegment = << >>
    /\ probeIntersect = << >> /\ probeNormal = << >>
    /\ applied = {}

LobbyIdle ==
    clientSocketId = "a" /\ updatedLobby = << >> /\ fresh = TRUE /\ lobbies = 0

serverVars == <<sockets, players, playersInputs, playersPositions, serverLevel,
                gameStarted, gameLoading, intervals, gameLoop,
                startTimeouts, restartTimeouts, fired, received, emitted>>

vars == <<playerVars, serverVars, loopVars, entityVars, sightVars, rayVars, lobbyVars>>

\* the server as it is when the process starts
ServerIdle ==
    /\ sockets = {}
    /\ players = << >>
    /\ playersInputs = << >>
    /\ playersPositions = << >>
    /\ serverLevel = NoLevel
    /\ gameStarted = FALSE
    /\ gameLoading = FALSE
    /\ intervals = 0
    /\ gameLoop = "null"
    /\ startTimeouts = 0
    /\ restartTimeouts = 0
    /\ fired = 0
    /\ received = 0
    /\ emitted = << >>

\* number of steps explored from each initial position
MaxTicks == 2

\* 4x4 grid, only tile (1,1) occupied
LevelA == TileLevel(640, 640,
    << FALSE, FALSE, FALSE, FALSE,
       FALSE, TRUE,  FALSE, FALSE,
       FALSE, FALSE, FALSE, FALSE,
       FALSE, FALSE, FALSE, FALSE >>)

\* 4x4 grid without padding, tiles (0,1) and (2,2) occupied
LevelB == TileLevel(640, 640,
    << FALSE, FALSE, FALSE, FALSE,
       TRUE,  FALSE, FALSE, FALSE,
       FALSE, FALSE, TRUE,  FALSE,
       FALSE, FALSE, FALSE, FALSE >>)

\* a Level whose map has not been fetched yet: width 0, no blocks
LevelEmpty == TileLevel(0, 0, << >>)

RectPolygon(l, t, r, b) == << VecPx(l, t), VecPx(r, t), VecPx(r, b), VecPx(l, b) >>

\* one square obstacle
PolyLevelA == PolygonLevel(<< RectPolygon(160, 160, 320, 320) >>)

\* two walls 60 pixels apart, less than the collider is high
PolyLevelB == PolygonLevel(<< RectPolygon(400, 100, 560, 200),
                              RectPolygon(400, 260, 560, 360) >>)

PolyLevelEmpty == PolygonLevel(<< >>)

HasTiles(l) == l.kind = "tiles" /\ Len(l.blocks) > 0

\* the level carries geometry the revision collides with
HasGeometry(r, l) == IF r = "tiles" THEN HasTiles(l) ELSE HasPolygons(l)

Levels(r) ==
    IF r = "tiles" THEN {NoLevel, LevelEmpty, LevelA, LevelB}
    ELSE {NoLevel, PolyLevelEmpty, LevelA, PolyLevelA, PolyLevelB}

\* where an alive player starts on each level: its collider clear of the
\* geometry and its corners inside the map
Starts(l) ==
    IF l = LevelA THEN { VecPx(140, 0), VecPx(75, 136), VecPx(309, 136), VecPx(140, 261) }
    ELSE IF l = LevelB THEN { VecPx(-16, 31), VecPx(550, 0) }
    ELSE IF l = PolyLevelA THEN { VecPx(75, 136), VecPx(82, 27), VecPx(500, 500) }
    ELSE IF l = PolyLevelB THEN { VecPx(315, 134), VecPx(315, 20) }
    ELSE { VecPx(140, 0) }

\* where a player that is not alive is put: next to the geometry it ignores
GhostStarts(l) ==
    IF l \in {LevelA, PolyLevelA} THEN { VecPx(75, 136) }
    ELSE IF l = PolyLevelB THEN { VecPx(315, 134) }
    ELSE { VecPx(140, 0) }

InitStep ==
    /\ rev \in {"tiles", "polygons"}
    /\ alive \in BOOLEAN
    /\ level \in Levels(rev)
    /\ dt \in DtDens
    /\ pos \in (IF alive THEN Starts(level) ELSE GhostStarts(level))
    /\ prev = pos
    /\ input = 0
    /\ dir = Dir2(0)
    /\ ticks = 0
    /\ ServerIdle /\ LoopIdle /\ EntitiesIdle /\ SightIdle /\ RayIdle /\ LobbyIdle

\* the step the revision in use computes
Stepped(m) ==
    IF rev = "tiles" THEN StepPhysicsTile(alive, pos.x, pos.y, m, level, dt)
    ELSE StepPhysics(alive, pos.x, pos.y, m, level, dt)

\* the player takes the position and direction a step returned
Lands(r) == pos' = Vec(r.x, r.y) /\ dir' = r.dir

StepWithin(m, bound) ==
    /\ ticks < bound
    /\ Lands(Stepped(m))
    /\ prev' = pos
    /\ input' = m
    /\ ticks' = ticks + 1
    /\ UNCHANGED <<rev, alive, level, dt>>
    /\ UNCHANGED <<serverVars, loopVars, entityVars, sightVars, rayVars, lobbyVars>>

Step(m) == StepWithin(m, MaxTicks)

NextStep == \E m \in Masks : Step(m)

SpecStep == InitStep /\ [][NextStep]_vars

----------------------------------------------------------------------------
(* A walk around the edge of an unpadded tile map: the player starts in     *)
(* tile (0,0) of LevelB, whose tile (0,1) is occupied, and may leave the    *)
(* grid to the left.                                                        *)

\* number of steps of the walk
MaxEdgeTicks == 7

EdgeMasks == { INPUT_LEFT, INPUT_RIGHT, INPUT_DOWN, INPUT_LEFT + INPUT_DOWN }

InitEdge ==
    /\ rev = "tiles"
    /\ alive = TRUE
    /\ level = LevelB
    /\ dt = 10
    /\ pos = VecPx(-16, 31)
    /\ prev = pos
    /\ input = 0
    /\ dir = Dir2(0)
    /\ ticks = 0
    /\ ServerIdle /\ LoopIdle /\ EntitiesIdle /\ SightIdle /\ RayIdle /\ LobbyIdle

EdgeStep(m) == StepWithin(m, MaxEdgeTicks)

NextEdge == \E m \in EdgeMasks : EdgeStep(m)

SpecEdge == InitEdge /\ [][NextEdge]_vars

----------------------------------------------------------------------------
(* Properties *)

Stepped1 == ticks > 0

\* the position the last step asked for: (x + dX, y + dY)
Attempted == Vec(Add(prev.x, DeltaX(input, dt)), Add(prev.y, DeltaY(input, dt)))

\* the last step ran the polygon collision branch
PolygonBranch == rev = "polygons" /\ alive /\ HasPolygons(level)

\* the last step ran the tile collision branch on a loaded grid
TileBranch == rev = "tiles" /\ alive /\ HasTiles(level)

\* C1: a player that is not alive, or a level that is null or has no geometry,
\* makes the step return exactly (x + dX, y + dY)
C1_PassThrough ==
    (Stepped1 /\ (~alive \/ ~HasGeometry(rev, level))) => pos = Attempted

\* a ghost has walked into the square obstacle of PolyLevelA
C1_Witness ==
    /\ Stepped1 /\ ~alive /\ rev = "polygons" /\ level = PolyLevelA
    /\ pos # prev
    /\ DetectCollision(ColliderAABB(pos.x, pos.y), level.polygons[1])

NetX == B2N(HasBit(input, INPUT_RIGHT)) - B2N(HasBit(input, INPUT_LEFT))
NetY == B2N(HasBit(input, INPUT_DOWN)) - B2N(HasBit(input, INPUT_UP))
CancelX == HasBit(input, INPUT_LEFT) /\ HasBit(input, INPUT_RIGHT)
CancelY == HasBit(input, INPUT_UP) /\ HasBit(input, INPUT_DOWN)

DirDecoded ==
    /\ Sign(dir.x) = NetX
    /\ Sign(dir.y) = NetY
    /\ (CancelX => dir.x = Zero)
    /\ (CancelY => dir.y = Zero)

\* C2 as stated: the direction is [RIGHT]-[LEFT], [DOWN]-[UP], and an axis whose
\* two bits are both set keeps its coordinate
C2_CancelKeepsPosition ==
    Stepped1 => /\ DirDecoded
                /\ (CancelX => pos.x = prev.x)
                /\ (CancelY => pos.y = prev.y)

\* C2 amended: the direction is [RIGHT]-[LEFT], [DOWN]-[UP]; an axis whose two
\* bits are both set has zero displacement, and keeps its coordinate unless the
\* polygon collision branch corrects the position
C2_CancelZeroDelta ==
    Stepped1 => /\ DirDecoded
                /\ (CancelX => Attempted.x = prev.x /\ (pos.x = prev.x \/ PolygonBranch))
                /\ (CancelY => Attempted.y = prev.y /\ (pos.y = prev.y \/ PolygonBranch))

\* LEFT and RIGHT both held while moving vertically: x kept, y moved
C2_Witness ==
    Stepped1 /\ CancelX /\ NetY # 0 /\ pos.x = prev.x /\ pos.y # prev.y

\* the collider box of a player at p, and its corner points
Collider(p) == ColliderAABB(p.x, p.y)

CornerPoints(p) ==
    { <<cx, cy>> : cx \in {Collider(p).x, Add(Collider(p).x, Px(PLAYER_COLLIDER_SIZE))},
                   cy \in {Collider(p).y, Add(Collider(p).y, Px(PLAYER_COLLIDER_SIZE))} }

\* the tile a coordinate lies in
FloorDiv(u, px) == Floor(u) \div (px * UNIT)

Cols(l) == l.width \div TILE_SIZE
Rows(l) == l.height \div TILE_SIZE

InRange(l, col, row) == col >= 0 /\ col < Cols(l) /\ row >= 0 /\ row < Rows(l)

Occupied(l, col, row) == InRange(l, col, row) /\ l.blocks[col + row * Cols(l) + 1]

OccupiedTiles(l) ==
    { t \in (0..(Cols(l) - 1)) \X (0..(Rows(l) - 1)) : Occupied(l, t[1], t[2]) }

CornerInOccupied(l, p) ==
    \E c \in CornerPoints(p) :
        Occupied(l, FloorDiv(c[1], TILE_SIZE), FloorDiv(c[2], TILE_SIZE))

\* the collider at p and the tile t share interior points
OverlapsTile(p, t) ==
    /\ Lt(Collider(p).x, Px((t[1] + 1) * TILE_SIZE))
    /\ Lt(Px(t[1] * TILE_SIZE), Add(Collider(p).x, Px(PLAYER_COLLIDER_SIZE)))
    /\ Lt(Collider(p).y, Px((t[2] + 1) * TILE_SIZE))
    /\ Lt(Px(t[2] * TILE_SIZE), Add(Collider(p).y, Px(PLAYER_COLLIDER_SIZE)))

SingleAxis == (NetX # 0) # (NetY # 0)

\* C3: a collider moved along one axis into an occupied tile does not overlap
\* that tile at the corrected position
C3_Containment ==
    (Stepped1 /\ TileBranch /\ SingleAxis) =>
        \A t \in OccupiedTiles(level) :
            (~OverlapsTile(prev, t) /\ OverlapsTile(Attempted, t)) => ~OverlapsTile(pos, t)

\* C4: the example scenario, an alive player at (140, 0) on LevelA stepping
\* down with dt = 0.1
C4_Scenario ==
    /\ ticks = 1 /\ TileBranch /\ level = LevelA /\ dt = 10
    /\ prev = VecPx(140, 0) /\ NetX = 0 /\ NetY = 1

\* C4 as stated: the player ends at y = 1*160 - 64 = 96, x unchanged
C4_SnapsTo96 == C4_Scenario => pos = VecPx(140, 96)

\* C4 amended: the vertical delta is blocked and the player ends at
\* y = 0*160 + 64/2 - 1 = 31, x unchanged
C4_SnapsTo31 == C4_Scenario => (pos = VecPx(140, 31) /\ pos # Attempted)

C4_Witness == C4_Scenario /\ Attempted.y = Num(768, 0)

\* C5: no collider corner of an alive player on a tile level ever lies in an
\* occupied tile
C5_NoTunnelling == TileBranch => ~CornerInOccupied(level, pos)

\* C6: an axis whose delta is zero keeps its coordinate, and the other axis
\* ends where resolving it alone from the old position ends
C6_AxisIndependence ==
    (Stepped1 /\ TileBranch) =>
        /\ Sign(DeltaX(input, dt)) = 0 =>
              /\ pos.x = prev.x
              /\ pos.y = ResolveY(level, prev.x, prev.y, DeltaY(input, dt))
        /\ Sign(DeltaY(input, dt)) = 0 =>
              /\ pos.y = prev.y
              /\ pos.x = ResolveX(level, prev.x, prev.y, DeltaX(input, dt))

\* a vertical move is blocked while x is at rest
C6_Witness ==
    /\ Stepped1 /\ TileBranch /\ Sign(DeltaX(input, dt)) = 0 /\ NetY # 0
    /\ pos.y # Attempted.y /\ pos.x = prev.x

\* the check(col, row) calls of colliding = a || b || c || d: the calls up to
\* the first truthy one
Queried(l, c) ==
    LET q == << c.topLeft, c.topRight, c.botLeft, c.botRight >>
    IN  { q[i] : i \in { k \in 1..4 : \A j \in 1..(k - 1) : ~Check(l, q[j][1], q[j][2]) } }

\* the check calls the last step made
LastQueries ==
    (IF Sign(DeltaX(input, dt)) = 0 THEN {}
     ELSE Queried(level, Corners(Collider(Vec(Attempted.x, prev.y)).x,
                                 Collider(Vec(Attempted.x, prev.y)).y)))
    \cup
    (IF Sign(DeltaY(input, dt)) = 0 THEN {}
     ELSE Queried(level, Corners(Collider(Vec(pos.x, Attempted.y)).x,
                                 Collider(Vec(pos.x, Attempted.y)).y)))

\* C7: a check whose column or row is outside the grid returns falsy
C7_OutOfRangeFalsy ==
    (Stepped1 /\ TileBranch) =>
        \A q \in LastQueries : ~InRange(level, q[1], q[2]) => ~Check(level, q[1], q[2])

\* the polygon passed the broad phase of the last step
Overlapping(vertices) ==
    \/ CheckAABBs(PolygonAABB(vertices), Collider(prev))
    \/ CheckAABBs(PolygonAABB(vertices), Collider(Attempted))

\* C8: after the broad phase, the corrected collider does not collide with any
\* polygon it collided with before, unless that polygon's MTV was zero
C8_NonPenetration ==
    (Stepped1 /\ PolygonBranch) =>
        \A i \in 1..Len(level.polygons) :
            LET p == level.polygons[i]
            IN  (Overlapping(p) /\ DetectCollision(Collider(Attempted), p)) =>
                    \/ ~DetectCollision(Collider(pos), p)
                    \/ ResolveCollision(Collider(Attempted), p) = Vec(Zero, Zero)

\* C9: the polygons whose AABB overlaps neither collider box add nothing: the
\* result is that of the overlapping polygons alone, and the end position
\* itself when there are none
C9_BroadPhaseFilter ==
    (Stepped1 /\ PolygonBranch) =>
        LET kept == SelectSeq(level.polygons, Overlapping)
        IN  /\ pos = BroadPhaseCollisionDetection(prev, Attempted, kept)
            /\ (kept = << >> => pos = Attempted)

\* one polygon is skipped by the broad phase while another corrects the position
C9_Witness ==
    /\ Stepped1 /\ PolygonBranch /\ pos # Attempted
    /\ \E i \in 1..Len(level.polygons) : ~Overlapping(level.polygons[i])

\* some edge normal of the polygon shows zero or negative overlap with r
NoOverlapAxis(r, vertices) ==
    \E i \in 1..Len(vertices) : Sign(EdgeAxis(r, vertices, i).overlap) <= 0

\* C10: resolveCollision returns the zero vector whenever some edge normal
\* shows zero or negative overlap
C10_ZeroMtv ==
    (Stepped1 /\ rev = "polygons" /\ HasPolygons(level)) =>
        \A r \in {Collider(Attempted), Collider(pos)} :
            \A i \in 1..Len(level.polygons) :
                NoOverlapAxis(r, level.polygons[i]) =>
                    ResolveCollision(r, level.polygons[i]) = Vec(Zero, Zero)

\* resolveCollision was called on a collider that touches the polygon
C10_Witness ==
    /\ Stepped1 /\ PolygonBranch
    /\ \E i \in 1..Len(level.polygons) :
          /\ Overlapping(level.polygons[i])
          /\ DetectCollision(Collider(Attempted), level.polygons[i])
          /\ NoOverlapAxis(Collider(Attempted), level.polygons[i])

\* the step took the pass-through path
PassThrough == ~alive \/ ~HasGeometry(rev, level)

\* the squared length of the displacement of the last step
DisplacementSq ==
    Add(Mul(Sub(pos.x, prev.x), Sub(pos.x, prev.x)),
        Mul(Sub(pos.y, prev.y), Sub(pos.y, prev.y)))

\* the squared length of a single-axis displacement at the same speed and dt
AxisDisplacementSq == Mul(Delta(1, FALSE, dt), Delta(1, FALSE, dt))

\* C11: on the pass-through path a diagonal input moves the player exactly as
\* far as a single-axis input does at the same speed and dt
C11_DiagonalSpeed ==
    (Stepped1 /\ PassThrough /\ NetX # 0 /\ NetY # 0) =>
        DisplacementSq = AxisDisplacementSq

C11_Witness ==
    /\ Stepped1 /\ PassThrough /\ NetX = 1 /\ NetY = -1
    /\ Sign(Sub(pos.x, prev.x)) = 1 /\ Sign(Sub(pos.y, prev.y)) = -1

----------------------------------------------------------------------------
(* The server's tick and the client's prediction *)

\* TIMESTEP * .001 = 1/60 second, as the denominator of dt
TIMESTEP_DEN == 60

\* the body of the server's stepPhysics loop for one player: the tile
\* strategy with dt = TIMESTEP * .001
ServerStepPlayer(isAlive, x, y, mask, lvl) ==
    StepPhysicsTile(isAlive, x, y, mask, lvl, TIMESTEP_DEN)

\* the step the client's Player.update runs for prediction
ClientStepPlayer(isAlive, x, y, mask, lvl) ==
    StepPhysics(isAlive, x, y, mask, lvl, TIMESTEP_DEN)

\* C12: for the same alive flag, position, input mask, level and dt, the
\* client's prediction step and the server's tick step return the same position
C12_PredictionAgrees ==
    (Stepped1 /\ dt = TIMESTEP_DEN /\ level.kind # "polygons") =>
        LET c == ClientStepPlayer(alive, prev.x, prev.y, input, level)
            s == ServerStepPlayer(alive, prev.x, prev.y, input, level)
        IN  c.x = s.x /\ c.y = s.y

\* socket ids of the clients that may connect
SocketIds == {"a", "b"}

ROLE_NONE == "none"
ROLE_READY == "ready"
ROLE_HIDE == "hide"
ROLE_SEEK == "seek"
ROLE_SPEC == "spectate"

\* bounds of the server exploration: firings of the tick timer, socket
\* messages handled, setTimeout callbacks pending at once
MaxFirings == 2
MaxReceived == 5
MaxTimeouts == 2

\* the input masks and the join position the clients send
ServerMasks == {INPUT_RIGHT, INPUT_LEFT + INPUT_RIGHT + INPUT_DOWN}
JoinPositions == {VecPx(140, 0)}

\* the level loadLevel("lvl0.json") builds, and its startX, startY
LoadedLevel == LevelA
LevelStart == VecPx(75, 136)

\* new Player(name, role), new Position(x, y)
Player(role) == [role |-> role, alive |-> TRUE]

PlayerExists(socketId) ==
    /\ socketId \in DOMAIN players
    /\ socketId \in DOMAIN playersInputs
    /\ socketId \in DOMAIN playersPositions

\* one emitted message
Msg(event, data) == [event |-> event, data |-> data]

\* dictionary operations: d[key] = value, delete d[key]
Put(d, key, value) == [k \in DOMAIN d \cup {key} |-> IF k = key THEN value ELSE d[k]]
Delete(d, key) == [k \in DOMAIN d \ {key} |-> d[k]]

\* mutant: the sweep steps a player twice in one firing
SweepPositionTwice(id) ==
    LET p == playersPositions[id]
        r == ServerStepPlayer(players[id].alive, p.x, p.y, playersInputs[id], serverLevel)
        q == ServerStepPlayer(players[id].alive, r.x, r.y, playersInputs[id], serverLevel)
    IN  Vec(q.x, q.y)

\* the slot of one player in the sweep of stepPhysics
SweepPosition(id) ==
    LET p == playersPositions[id]
        r == ServerStepPlayer(players[id].alive, p.x, p.y, playersInputs[id], serverLevel)
    IN  Vec(r.x, r.y)

\* mutant: the sweep also runs during the countdown
PausedNever == FALSE

\* if (gameLoading) return
Paused == gameLoading

\* setInterval(stepPhysics, TIMESTEP) fires
Tick ==
    /\ intervals > 0
    /\ fired < MaxFirings
    /\ fired' = fired + 1
    /\ IF Paused
       THEN /\ UNCHANGED playersPositions
            /\ emitted' = << >>
       ELSE /\ playersPositions' =
                  [id \in DOMAIN playersPositions |->
                      IF id \in DOMAIN players /\ PlayerExists(id)
                      THEN SweepPosition(id) ELSE playersPositions[id]]
            /\ emitted' = << Msg("updatePositions", playersPositions') >>
    /\ UNCHANGED <<sockets, players, playersInputs, serverLevel, gameStarted,
                   gameLoading, intervals, gameLoop, startTimeouts,
                   restartTimeouts, received>>
    /\ UNCHANGED <<playerVars, loopVars, entityVars, sightVars, rayVars, lobbyVars>>

\* io.on('connection')
Connect(id) ==
    /\ id \notin sockets
    /\ sockets' = sockets \cup {id}
    /\ emitted' = << >>
    /\ UNCHANGED <<players, playersInputs, playersPositions, serverLevel,
                   gameStarted, gameLoading, intervals, gameLoop, startTimeouts,
                   restartTimeouts, fired, received>>
    /\ UNCHANGED <<playerVars, loopVars, entityVars, sightVars, rayVars, lobbyVars>>

\* mutant: a player who joins a started game is not made a spectator
JoinedInGame(started) == Player(ROLE_NONE)

\* the player the join handler stores: new Player(name, ROLE_NONE), made a
\* dead spectator when the game has started
Joined(started) ==
    IF started THEN [role |-> ROLE_SPEC, alive |-> FALSE] ELSE Player(ROLE_NONE)

\* socket.on('join')
Join(id, p) ==
    /\ id \in sockets
    /\ received < MaxReceived
    /\ received' = received + 1
    /\ IF DOMAIN players = {}
       THEN intervals' = intervals + 1 /\ gameLoop' = "active"
       ELSE UNCHANGED <<intervals, gameLoop>>
    /\ players' = Put(players, id, Joined(gameStarted))
    /\ playersInputs' = Put(playersInputs, id, 0)
    /\ playersPositions' = Put(playersPositions, id, p)
    /\ emitted' = << Msg("returnPlayer", id), Msg("updateLobby", players') >>
    /\ UNCHANGED <<sockets, serverLevel, gameStarted, gameLoading,
                   startTimeouts, restartTimeouts, fired>>
    /\ UNCHANGED <<playerVars, loopVars, entityVars, sightVars, rayVars, lobbyVars>>

\* mutant: clearInterval is not called
ClearedKeepsRunning(handle, running) == [handle |-> handle, running |-> running]

\* clearInterval(gameLoop): the handle and the number of running intervals after it
Cleared(handle, running) ==
    IF handle = "active" THEN [handle |-> "cleared", running |-> running - 1]
    ELSE [handle |-> handle, running |-> running]

\* mutant: the input of the leaving player is kept
RemovedKeepsInput(id) ==
    [players |-> Delete(players, id),
     inputs |-> playersInputs,
     positions |-> Delete(playersPositions, id)]

\* the three dictionaries after the deletes of the disconnect handler
Removed(id) ==
    IF PlayerExists(id)
    THEN [players |-> Delete(players, id),
          inputs |-> Delete(playersInputs, id),
          positions |-> Delete(playersPositions, id)]
    ELSE [players |-> players, inputs |-> playersInputs, positions |-> playersPositions]

\* mutant: a running countdown is left as it is
ResetServerKeepsLoading ==
    [level |-> NoLevel, gameStarted |-> FALSE, gameLoading |-> gameLoading]

\* what resetServer assigns to level, gameStarted and gameLoading
ResetServer == [level |-> NoLevel, gameStarted |-> FALSE, gameLoading |-> FALSE]

\* socket.on('disconnect'), with resetServer when no player is left
Disconnect(id) ==
    /\ id \in sockets
    /\ sockets' = sockets \ {id}
    /\ LET after == Removed(id)
           lobby == IF PlayerExists(id) THEN << Msg("updateLobby", after.players) >>
                    ELSE << >>
       IN  IF DOMAIN after.players = {}
           THEN /\ players' = << >>
                /\ playersInputs' = << >>
                /\ playersPositions' = << >>
                /\ serverLevel' = ResetServer.level
                /\ gameStarted' = ResetServer.gameStarted
                /\ gameLoading' = ResetServer.gameLoading
                /\ gameLoop' = Cleared(gameLoop, intervals).handle
                /\ intervals' = Cleared(gameLoop, intervals).running
                /\ emitted' = lobby
           ELSE /\ players' = after.players
                /\ playersInputs' = after.inputs
                /\ playersPositions' = after.positions
                /\ emitted' = lobby
                /\ UNCHANGED <<serverLevel, gameStarted, gameLoading, gameLoop, intervals>>
    /\ UNCHANGED <<startTimeouts, restartTimeouts, fired, received>>
    /\ UNCHANGED <<playerVars, loopVars, entityVars, sightVars, rayVars, lobbyVars>>

\* mutant: the input handler also moves the player to the origin
InputPositionsMoved(id) == Put(playersPositions, id, VecPx(0, 0))

\* the positions after the input handler
InputPositions(id) == playersPositions

\* mutant: the input is stored for every player
InputsAfterForAll(id, m) == [k \in DOMAIN playersInputs |-> m]

\* playersInputs[socket.id] = input
InputsAfter(id, m) == Put(playersInputs, id, m)

\* socket.on('input')
Input(id, m) ==
    /\ id \in sockets
    /\ received < MaxReceived
    /\ received' = received + 1
    /\ IF PlayerExists(id)
       THEN /\ playersInputs' = InputsAfter(id, m)
            /\ playersPositions' = InputPositions(id)
            /\ emitted' = << Msg("updateInputs", playersInputs') >>
       ELSE /\ UNCHANGED <<playersInputs, playersPositions>>
            /\ emitted' = << >>
    /\ UNCHANGED <<sockets, players, serverLevel, gameStarted, gameLoading,
                   intervals, gameLoop, startTimeouts, restartTimeouts, fired>>
    /\ UNCHANGED <<playerVars, loopVars, entityVars, sightVars, rayVars, lobbyVars>>

\* mutant: one player is enough to start
AllReadyAlone(table) == \A k \in DOMAIN table : table[k].role = ROLE_READY

\* playerValues.length > 1 && playerValues.every((p) => p.role === ROLE_READY)
AllReady(table) ==
    /\ Cardinality(DOMAIN table) > 1
    /\ \A k \in DOMAIN table : table[k].role = ROLE_READY

\* socket.on('ready'): data.socketId names the player, any connected socket sends
Ready(socketId, ready) ==
    /\ sockets # {}
    /\ received < MaxReceived
    /\ received' = received + 1
    /\ LET after == IF PlayerExists(socketId)
                    THEN [players EXCEPT ![socketId].role =
                              IF ready THEN ROLE_READY ELSE ROLE_NONE]
                    ELSE players
           lobby == IF PlayerExists(socketId) THEN << Msg("updateLobby", after) >> ELSE << >>
       IN  /\ players' = after
           /\ IF AllReady(after)
              THEN /\ startTimeouts + restartTimeouts < MaxTimeouts
                   /\ gameLoading' = TRUE
                   /\ startTimeouts' = startTimeouts + 1
                   /\ emitted' = lobby \o << Msg("starting", << >>) >>
              ELSE /\ UNCHANGED <<gameLoading, startTimeouts>>
                   /\ emitted' = lobby
    /\ UNCHANGED <<sockets, playersInputs, playersPositions, serverLevel,
                   gameStarted, intervals, gameLoop, restartTimeouts, fired>>
    /\ UNCHANGED <<playerVars, loopVars, entityVars, sightVars, rayVars, lobbyVars>>

\* mutant: the round goes on without hiders
NoHiderIgnored(table) == FALSE

\* !Object.values(players).filter((p) => p.role === ROLE_HIDE).length
NoHider(table) == \A k \in DOMAIN table : table[k].role # ROLE_HIDE

\* socket.on('kill'), with endGame(false) when no hider is left
Kill(socketId) ==
    /\ sockets # {}
    /\ received < MaxReceived
    /\ received' = received + 1
    /\ LET after == IF PlayerExists(socketId)
                    THEN [players EXCEPT ![socketId] = [role |-> ROLE_SPEC, alive |-> FALSE]]
                    ELSE players
           lobby == IF PlayerExists(socketId) THEN << Msg("updateLobby", after) >> ELSE << >>
       IN  /\ players' = after
           /\ IF NoHider(after)
              THEN /\ startTimeouts + restartTimeouts < MaxTimeouts
                   /\ gameStarted' = FALSE
                   /\ serverLevel' = NoLevel
                   /\ restartTimeouts' = restartTimeouts + 1
                   /\ emitted' = lobby \o << Msg("gameEnded", FALSE) >>
              ELSE /\ UNCHANGED <<gameStarted, serverLevel, restartTimeouts>>
                   /\ emitted' = lobby
    /\ UNCHANGED <<sockets, playersInputs, playersPositions, gameLoading,
                   intervals, gameLoop, startTimeouts, fired>>
    /\ UNCHANGED <<playerVars, loopVars, entityVars, sightVars, rayVars, lobbyVars>>

\* mutant: the chosen player is made a hider as well
AssignedHide(id, randomId) == ROLE_HIDE

\* the role startGame gives to player id when randomId is chosen
Assigned(id, randomId) == IF id = randomId THEN ROLE_SEEK ELSE ROLE_HIDE

\* setTimeout(startGame, 3000) fires; seeker is the randomly chosen id
StartGame(seeker) ==
    /\ startTimeouts > 0
    /\ startTimeouts' = startTimeouts - 1
    /\ gameLoading' = FALSE
    /\ gameStarted' = TRUE
    /\ serverLevel' = LoadedLevel
    /\ players' = [id \in DOMAIN players |->
                      [players[id] EXCEPT !.role = Assigned(id, seeker)]]
    /\ playersPositions' = [id \in DOMAIN playersPositions |->
                               IF id \in DOMAIN players THEN LevelStart
                               ELSE playersPositions[id]]
    /\ emitted' = << Msg("gameStarted", << >>), Msg("updateLobby", players') >>
    /\ UNCHANGED <<sockets, playersInputs, intervals, gameLoop,
                   restartTimeouts, fired, received>>
    /\ UNCHANGED <<playerVars, loopVars, entityVars, sightVars, rayVars, lobbyVars>>

\* the ids Math.random can pick: a key of players, undefined without players
Seekers == IF DOMAIN players = {} THEN {"undefined"} ELSE DOMAIN players

\* setTimeout(restartLobby, 10000) fires
RestartLobby ==
    /\ restartTimeouts > 0
    /\ restartTimeouts' = restartTimeouts - 1
    /\ players' = [id \in DOMAIN players |-> Player(ROLE_NONE)]
    /\ emitted' = << Msg("gameRestart", << >>), Msg("updateLobby", players') >>
    /\ UNCHANGED <<sockets, playersInputs, playersPositions, serverLevel,
                   gameStarted, gameLoading, intervals, gameLoop,
                   startTimeouts, fired, received>>
    /\ UNCHANGED <<playerVars, loopVars, entityVars, sightVars, rayVars, lobbyVars>>

InitServer ==
    /\ ServerIdle /\ LoopIdle /\ EntitiesIdle /\ SightIdle /\ RayIdle /\ LobbyIdle
    /\ rev = "tiles"
    /\ alive = TRUE
    /\ level = NoLevel
    /\ dt = TIMESTEP_DEN
    /\ pos = VecPx(0, 0)
    /\ prev = pos
    /\ input = 0
    /\ dir = Dir2(0)
    /\ ticks = 0

NextServer ==
    \/ Tick
    \/ \E id \in SocketIds : Connect(id)
    \/ \E id \in SocketIds : \E p \in JoinPositions : Join(id, p)
    \/ \E id \in SocketIds : Disconnect(id)
    \/ \E id \in SocketIds : \E m \in ServerMasks : Input(id, m)
    \/ \E id \in SocketIds : \E ready \in BOOLEAN : Ready(id, ready)
    \/ \E id \in SocketIds : Kill(id)
    \/ \E seeker \in Seekers : StartGame(seeker)
    \/ RestartLobby

SpecServer == InitServer /\ [][NextServer]_vars

\* C15: the three dictionaries always have the same keys, so playerExists(id)
\* holds exactly for the keys of players
C15_SameKeys ==
    /\ DOMAIN players = DOMAIN playersInputs
    /\ DOMAIN players = DOMAIN playersPositions
    /\ \A id \in SocketIds : PlayerExists(id) <=> id \in DOMAIN players

\* a game is running with one player left
C15_Witness ==
    /\ gameStarted /\ fired > 0
    /\ \E id \in SocketIds : DOMAIN players = {id} /\ PlayerExists(id)

\* C16: at most one interval timer runs, and one runs exactly when the player
\* table is non-empty; the handle is cleared whenever the server has reset
C16_OneInterval ==
    /\ intervals <= 1
    /\ intervals = 1 <=> DOMAIN players # {}
    /\ DOMAIN players # {} => gameLoop = "active"
    /\ DOMAIN players = {} => gameLoop \in {"null", "cleared"}

\* the timer has fired and the last disconnect has reset the server
C16_Witness ==
    /\ intervals = 0 /\ gameLoop = "cleared" /\ DOMAIN players = {}
    /\ fired > 0 /\ sockets # {}

\* the firing steps every player exactly once from its position before it
SweptOnce ==
    \A id \in DOMAIN players :
        LET p == playersPositions[id]
            r == ServerStepPlayer(players[id].alive, p.x, p.y, playersInputs[id], serverLevel)
        IN  playersPositions'[id] = Vec(r.x, r.y)

\* the firing emits one updatePositions that maps every player to its position
Broadcast ==
    /\ emitted' = << Msg("updatePositions", playersPositions') >>
    /\ DOMAIN playersPositions' = DOMAIN players

\* C13 as stated: every firing of the tick timer steps every player once and
\* then broadcasts one updatePositions
C13_EveryFiringSweeps ==
    [][fired' = fired + 1 => SweptOnce /\ Broadcast]_vars

\* C13 amended: a firing while gameLoading is false steps every player once
\* and broadcasts one updatePositions; a firing while gameLoading is true
\* changes no position and emits nothing
C13_FiringSweepsUnlessLoading ==
    [][fired' = fired + 1 =>
          IF gameLoading
          THEN playersPositions' = playersPositions /\ emitted' = << >>
          ELSE SweptOnce /\ Broadcast]_vars

\* a sweep over two players has moved one of them and broadcast the positions
C13_Witness ==
    /\ fired > 0 /\ ~gameLoading
    /\ emitted = << Msg("updatePositions", playersPositions) >>
    /\ DOMAIN players = SocketIds
    /\ \E id \in DOMAIN players : playersPositions[id] \notin JoinPositions \cup {LevelStart}

\* the position of a player present before and after the step has changed
Moved(id) ==
    /\ id \in DOMAIN playersPositions
    /\ id \in DOMAIN playersPositions'
    /\ playersPositions'[id] # playersPositions[id]

\* C14 as stated: the position of an existing player changes only in a firing
\* of the tick timer
C14_OnlySweepMoves ==
    [][\A id \in SocketIds : Moved(id) => fired' = fired + 1]_vars

\* C14 amended: the position of an existing player changes only in a firing
\* of the tick timer, in startGame (to the level's start position) or in a
\* repeated join of the player's own socket (to the position it sends)
C14_OnlySweepStartJoinMove ==
    [][\A id \in SocketIds : Moved(id) =>
          \/ fired' = fired + 1
          \/ /\ startTimeouts' = startTimeouts - 1
             /\ playersPositions'[id] = LevelStart
          \/ /\ Len(emitted') > 0
             /\ emitted'[1] = Msg("returnPlayer", id)
             /\ playersPositions'[id] \in JoinPositions]_vars

\* startGame has moved both players to the start position
C14_Witness ==
    /\ Len(emitted) = 2 /\ emitted[1] = Msg("gameStarted", << >>)
    /\ DOMAIN players = SocketIds
    /\ \A id \in DOMAIN players : playersPositions[id] = LevelStart

----------------------------------------------------------------------------
(* The client's game loop, Game.run.  Times are in thirds of a millisecond, *)
(* so that TIMESTEP = 1000 / 60 ms is the integer 50.                       *)

\* thirds of a millisecond per millisecond
TIME_UNIT == 3

\* Game.TIMESTEP = 1000 / 60 ms
TIMESTEP == (1000 * TIME_UNIT) \div 60

\* the time between two frames, and the latest time explored
FrameGaps == {0, 7, 49, 50, 64, 120}
MaxTime == 260

UpdateCall == [op |-> "update", dt |-> TIMESTEP_DEN]
DrawCall == [op |-> "draw", dt |-> 0]

\* mutant: the loop stops one timestep early
RECURSIVE CatchUpStrict(_, _)
CatchUpStrict(acc, done) ==
    IF acc > TIMESTEP THEN CatchUpStrict(acc - TIMESTEP, Append(done, UpdateCall))
    ELSE [acc |-> acc, calls |-> done]

\* while (accumulatedTime >= TIMESTEP) { update(TIMESTEP * .001); accumulatedTime -= TIMESTEP }
RECURSIVE CatchUp(_, _)
CatchUp(acc, done) ==
    IF acc >= TIMESTEP THEN CatchUp(acc - TIMESTEP, Append(done, UpdateCall))
    ELSE [acc |-> acc, calls |-> done]

\* Game.run(currentTime)
Run(currentTime) ==
    /\ currentTime <= MaxTime
    /\ LET r == CatchUp(accumulatedTime + (currentTime - previousTime), << >>)
       IN  /\ accumulatedTime' = r.acc
           /\ calls' = Append(r.calls, DrawCall)
    /\ previousTime' = currentTime
    /\ UNCHANGED <<playerVars, serverVars, entityVars, sightVars, rayVars, lobbyVars>>

InitLoop ==
    /\ LoopIdle /\ ServerIdle /\ EntitiesIdle /\ SightIdle /\ RayIdle /\ LobbyIdle
    /\ rev = "tiles"
    /\ alive = TRUE
    /\ level = NoLevel
    /\ dt = TIMESTEP_DEN
    /\ pos = VecPx(0, 0)
    /\ prev = pos
    /\ input = 0
    /\ dir = Dir2(0)
    /\ ticks = 0

\* requestAnimationFrame calls run again with a later performance.now()
NextLoop == \E gap \in FrameGaps : Run(previousTime + gap)

SpecLoop == InitLoop /\ [][NextLoop]_vars

\* C17: a run makes k updates with dt of one timestep and then one draw, k the
\* number of whole timesteps in the accumulated time, and leaves
\* 0 <= accumulatedTime < TIMESTEP
C17_CatchUpThenDraw ==
    [][LET total == accumulatedTime + (previousTime' - previousTime)
           k == total \div TIMESTEP
       IN  /\ Len(calls') = k + 1
           /\ \A i \in 1..k : calls'[i] = UpdateCall
           /\ calls'[k + 1] = DrawCall
           /\ accumulatedTime' = total - k * TIMESTEP
           /\ 0 <= accumulatedTime' /\ accumulatedTime' < TIMESTEP]_loopVars

\* a run that caught up two timesteps and kept a remainder
C17_Witness ==
    /\ calls = << UpdateCall, UpdateCall, DrawCall >>
    /\ accumulatedTime > 0 /\ previousTime > 2 * TIMESTEP

----------------------------------------------------------------------------
(* The client's updatePositions handler.  Coordinates are integers counting *)
(* 1/LerpUnit pixel, LerpUnit a power of 5 that keeps a + 0.2 * (b - a)     *)
(* exact for as many messages as are explored.                              *)

\* number of updatePositions messages handled
MaxUpdates == 2

MAX_DISTANCE_RECONCILIATION == 128

RECURSIVE Pow5(_)
Pow5(n) == IF n = 0 THEN 1 ELSE 5 * Pow5(n - 1)

LerpUnit == Pow5(MaxUpdates)

Pt(px, py) == [x |-> px * LerpUnit, y |-> py * LerpUnit]

\* lerp(a, b, 0.2) = a + 0.2 * (b - a)
Lerp(a, b) == a + (b - a) \div 5

\* dist(a, b) squared: Math.sqrt is increasing, so dist > d iff DistSq > d * d
DistSq(a, b) == (a.x - b.x) * (a.x - b.x) + (a.y - b.y) * (a.y - b.y)

ThresholdSq ==
    (MAX_DISTANCE_RECONCILIATION * LerpUnit) * (MAX_DISTANCE_RECONCILIATION * LerpUnit)

\* mutant: the client never jumps, it always blends
ReconciledNeverSnaps(old, new) == [x |-> Lerp(old.x, new.x), y |-> Lerp(old.y, new.y)]

\* the position of a known entity after the handler saw the server's position
Reconciled(old, new) ==
    IF DistSq(new, old) > ThresholdSq THEN [x |-> new.x, y |-> new.y]
    ELSE [x |-> Lerp(old.x, new.x), y |-> Lerp(old.y, new.y)]

ServerPoints == {Pt(0, 0), Pt(100, 0), Pt(100, 100)}

\* the updatePositions messages explored
Messages ==
    UNION { [ids -> ServerPoints] : ids \in {{"a"}, {"a", "b"}, {"b", "c"}} }

\* socket.on('updatePositions')
UpdatePositions(msg) ==
    /\ handled < MaxUpdates
    /\ handled' = handled + 1
    /\ positions' = msg
    /\ entities' = [id \in DOMAIN entities |->
                       IF id \in DOMAIN msg THEN Reconciled(entities[id], msg[id])
                       ELSE entities[id]]
    /\ UNCHANGED <<playerVars, serverVars, loopVars, sightVars, rayVars, lobbyVars>>

InitEntities ==
    /\ entities \in UNION { [ids -> {Pt(0, 0)}] : ids \in {{"a"}, {"a", "b"}} }
    /\ positions = << >>
    /\ handled = 0
    /\ LoopIdle /\ ServerIdle /\ SightIdle /\ RayIdle /\ LobbyIdle
    /\ rev = "tiles"
    /\ alive = TRUE
    /\ level = NoLevel
    /\ dt = TIMESTEP_DEN
    /\ pos = VecPx(0, 0)
    /\ prev = pos
    /\ input = 0
    /\ dir = Dir2(0)
    /\ ticks = 0

NextEntities == \E msg \in Messages : UpdatePositions(msg)

SpecEntities == InitEntities /\ [][NextEntities]_vars

\* C18: a known entity farther than MAX_DISTANCE_RECONCILIATION from the
\* server's position jumps to it, a nearer one moves a fifth of the way towards
\* it and never away; ids the client does not know are ignored, entities the
\* message does not name stay
C18_Reconciliation ==
    [][handled' = handled + 1 =>
          /\ DOMAIN entities' = DOMAIN entities
          /\ \A id \in DOMAIN entities :
                LET old == entities[id]
                    new == entities'[id]
                IN  IF id \in DOMAIN positions'
                    THEN LET server == positions'[id]
                         IN  IF DistSq(server, old) > ThresholdSq
                             THEN new = server
                             ELSE /\ 5 * (new.x - old.x) = server.x - old.x
                                  /\ 5 * (new.y - old.y) = server.y - old.y
                                  /\ DistSq(server, new) <= DistSq(server, old)
                    ELSE new = old]_vars

\* one entity has jumped to the server's position, the other has blended
\* once, and the last message named an id the client does not know
C18_Witness ==
    /\ handled = 2
    /\ DOMAIN entities = {"a", "b"}
    /\ "c" \in DOMAIN positions
    /\ entities["b"] = positions["b"] /\ positions["b"] = Pt(100, 100)
    /\ entities["a"] = [x |-> 20 * LerpUnit, y |-> 0]

----------------------------------------------------------------------------
(* The seeker's sight polygon, getSightPolygon.  Coordinates count sight    *)
(* units of 80 pixels.  The offset 0.00001 added to an angle is carried     *)
(* symbolically: a number is re + ep * 0.00001 with integers re and ep, and *)
(* terms in 0.00001 squared are dropped.  An angle is the direction v it    *)
(* points in, reduced to lowest terms, and the number k of offsets added.   *)

GAME_WIDTH == 1280
GAME_HEIGHT == 720

\* the view in sight units
ViewWidth == GAME_WIDTH \div 80
ViewHeight == GAME_HEIGHT \div 80

Eps(re, ep) == [re |-> re, ep |-> ep]
EInt(n) == Eps(n, 0)
EAdd(u, v) == Eps(u.re + v.re, u.ep + v.ep)
ESub(u, v) == Eps(u.re - v.re, u.ep - v.ep)
EMul(u, v) == Eps(u.re * v.re, u.re * v.ep + u.ep * v.re)
ENeg(u) == Eps(-u.re, -u.ep)
SignInt(n) == IF n > 0 THEN 1 ELSE IF n < 0 THEN -1 ELSE 0
ESign(u) == IF u.re # 0 THEN SignInt(u.re) ELSE SignInt(u.ep)

\* a quotient n / d of two such numbers, kept with d >= 0; as in IEEE
\* arithmetic n / 0 is +Infinity for n > 0 and NaN for n = 0
Frac(n, d) == IF ESign(d) < 0 THEN [n |-> ENeg(n), d |-> ENeg(d)] ELSE [n |-> n, d |-> d]
IsNaN(f) == ESign(f.d) = 0 /\ ESign(f.n) = 0
FNegative(f) == ESign(f.n) < 0
FLess(f, g) ==
    /\ ~IsNaN(f) /\ ~IsNaN(g)
    /\ ESign(ESub(EMul(f.n, g.d), EMul(g.n, f.d))) < 0
FPlus(u, f) == [n |-> EAdd(EMul(u, f.d), f.n), d |-> f.d]
FTimes(u, f) == [n |-> EMul(u, f.n), d |-> f.d]

AbsInt(n) == IF n < 0 THEN -n ELSE n

RECURSIVE Gcd(_, _)
Gcd(m, n) == IF n = 0 THEN m ELSE Gcd(n, m % n)

\* Math.atan2(dy, dx)
Atan2(dy, dx) ==
    LET g == Gcd(AbsInt(dx), AbsInt(dy))
    IN  IF g = 0 THEN [v |-> <<1, 0>>, k |-> 0]
        ELSE [v |-> <<dx \div g, dy \div g>>, k |-> 0]

\* angle + k * 0.00001
AnglePlus(angle, k) == [v |-> angle.v, k |-> angle.k + k]

\* Math.cos and Math.sin of an angle, both times the length of its v: the
\* ray they span is the same, its parameter counts lengths of v
Cos(angle) == Eps(angle.v[1], -angle.k * angle.v[2])
Sin(angle) == Eps(angle.v[2], angle.k * angle.v[1])

\* where atan2 puts a direction: below the x axis, on its positive half,
\* above it, on its negative half
HalfPlane(v) ==
    IF v[2] < 0 THEN 0
    ELSE IF v[2] > 0 THEN 2
    ELSE IF v[1] < 0 THEN 3 ELSE 1

\* a.angle - b.angle < 0
AngleLess(a, b) ==
    IF a.v = b.v THEN a.k < b.k
    ELSE IF HalfPlane(a.v) # HalfPlane(b.v) THEN HalfPlane(a.v) < HalfPlane(b.v)
    ELSE a.v[1] * b.v[2] - a.v[2] * b.v[1] > 0

NoIntersect == [hit |-> FALSE]

\* getIntersection(ray, segment)
GetIntersection(ray, segment) ==
    LET r_px == ray.a.x
        r_py == ray.a.y
        r_dx == ESub(ray.b.x, ray.a.x)
        r_dy == ESub(ray.b.y, ray.a.y)
        s_px == segment.a.x
        s_py == segment.a.y
        s_dx == ESub(segment.b.x, segment.a.x)
        s_dy == ESub(segment.b.y, segment.a.y)
        sameUnit == /\ ESign(r_dx) # 0 \/ ESign(r_dy) # 0
                    /\ ESign(ESub(EMul(r_dx, s_dy), EMul(r_dy, s_dx))) = 0
                    /\ ESign(r_dx) = ESign(s_dx)
                    /\ ESign(r_dy) = ESign(s_dy)
        T2 == Frac(EAdd(EMul(r_dx, ESub(s_py, r_py)), EMul(r_dy, ESub(r_px, s_px))),
                   ESub(EMul(s_dx, r_dy), EMul(s_dy, r_dx)))
        T1 == Frac(EAdd(EMul(ESub(s_px, r_px), T2.d), EMul(s_dx, T2.n)),
                   EMul(T2.d, r_dx))
    IN  IF sameUnit THEN NoIntersect
        ELSE IF FNegative(T1) THEN NoIntersect
        ELSE IF FNegative(T2) \/ FLess([n |-> EInt(1), d |-> EInt(1)], T2) THEN NoIntersect
        ELSE [hit |-> TRUE,
              x |-> FPlus(r_px, FTimes(r_dx, T1)),
              y |-> FPlus(r_py, FTimes(r_dy, T1)),
              param |-> T1]

EPt(x, y) == [x |-> EInt(x), y |-> EInt(y)]
Segment(ax, ay, bx, by) == [a |-> EPt(ax, ay), b |-> EPt(bx, by)]

\* mutant: the left edge of the screen border is not added
SegmentsOpenLeft(xView, yView) ==
    << Segment(xView, yView, xView + ViewWidth, yView),
       Segment(xView + ViewWidth, yView, xView + ViewWidth, yView + ViewHeight),
       Segment(xView + ViewWidth, yView + ViewHeight, xView, yView + ViewHeight) >>

\* the screen border
Segments(xView, yView) ==
    << Segment(xView, yView, xView + ViewWidth, yView),
       Segment(xView + ViewWidth, yView, xView + ViewWidth, yView + ViewHeight),
       Segment(xView + ViewWidth, yView + ViewHeight, xView, yView + ViewHeight),
       Segment(xView, yView + ViewHeight, xView, yView) >>

\* the end points of the segments, in the order they are added
RECURSIVE Points(_)
Points(segments) ==
    IF segments = << >> THEN << >>
    ELSE << Head(segments).a, Head(segments).b >> \o Points(Tail(segments))

\* the angles computed for the points, three for each: angle - 0.00001,
\* angle, angle + 0.00001
PointAngles(points, pX, pY) ==
    [i \in 1..(3 * Len(points)) |->
        AnglePlus(Atan2(points[(i + 2) \div 3].y.re - pY, points[(i + 2) \div 3].x.re - pX),
                  ((i + 2) % 3) - 1)]

\* Set.add keeps the first of equal values: the values from the i-th on that
\* no earlier one equals
RECURSIVE FirstAdded(_, _)
FirstAdded(seq, i) ==
    IF i > Len(seq) THEN << >>
    ELSE (IF \E j \in 1..(i - 1) : seq[j] = seq[i] THEN << >> ELSE << seq[i] >>)
         \o FirstAdded(seq, i + 1)

\* the set of angles, in insertion order
Angles(points, pX, pY) == FirstAdded(PointAngles(points, pX, pY), 1)

Ray(pX, pY, angle) ==
    [a |-> EPt(pX, pY),
     b |-> [x |-> EAdd(EInt(pX), Cos(angle)), y |-> EAdd(EInt(pY), Sin(angle))]]

\* mutant: every intersect replaces the closest one found so far
ReplacesLast(intersect, closest) == TRUE

\* !closestIntersect || intersect.param < closestIntersect.param
Replaces(intersect, closest) == ~closest.hit \/ FLess(intersect.param, closest.param)

\* the loop over the segments from segment j on
RECURSIVE ClosestFrom(_, _, _, _)
ClosestFrom(ray, segments, j, closest) ==
    IF j > Len(segments) THEN closest
    ELSE LET intersect == GetIntersection(ray, segments[j])
         IN  IF intersect.hit /\ Replaces(intersect, closest)
             THEN ClosestFrom(ray, segments, j + 1, intersect)
             ELSE ClosestFrom(ray, segments, j + 1, closest)

\* the loop over the angles
RECURSIVE Intersects(_, _, _, _)
Intersects(angles, pX, pY, segments) ==
    IF angles = << >> THEN << >>
    ELSE LET closest == ClosestFrom(Ray(pX, pY, Head(angles)), segments, 1, NoIntersect)
             rest == Intersects(Tail(angles), pX, pY, segments)
         IN  IF closest.hit
             THEN << [x |-> closest.x, y |-> closest.y, param |-> closest.param,
                      angle |-> Head(angles)] >> \o rest
             ELSE rest

\* mutant: the intersects are returned in the order they were found
Unsorted(intersects) == intersects

\* insertion of one intersect into a list sorted by angle, after its equals
RECURSIVE Inserted(_, _)
Inserted(sorted, e) ==
    IF sorted = << >> THEN << e >>
    ELSE IF AngleLess(e.angle, Head(sorted).angle) THEN << e >> \o sorted
    ELSE << Head(sorted) >> \o Inserted(Tail(sorted), e)

RECURSIVE SortFrom(_, _, _)
SortFrom(intersects, i, sorted) ==
    IF i > Len(intersects) THEN sorted
    ELSE SortFrom(intersects, i + 1, Inserted(sorted, intersects[i]))

\* intersects.sort((a, b) => a.angle - b.angle)
SortByAngle(intersects) == SortFrom(intersects, 1, << >>)

GetSightPolygon(pX, pY, xView, yView) ==
    LET segments == Segments(xView, yView)
        angles == Angles(Points(segments), pX, pY)
    IN  SortByAngle(Intersects(angles, pX, pY, segments))

\* a tile in sight units
TileUnits == TILE_SIZE \div 80

\* the four edges pushed for the occupied tile in column x and row y
TileEdges(x, y) ==
    << Segment(x * TileUnits, y * TileUnits, x * TileUnits + TileUnits, y * TileUnits),
       Segment(x * TileUnits + TileUnits, y * TileUnits,
               x * TileUnits + TileUnits, y * TileUnits + TileUnits),
       Segment(x * TileUnits + TileUnits, y * TileUnits + TileUnits,
               x * TileUnits, y * TileUnits + TileUnits),
       Segment(x * TileUnits, y * TileUnits + TileUnits, x * TileUnits, y * TileUnits) >>

\* Level.rows, ~~(width / TILE_SIZE); Level.cols is height / TILE_SIZE, which
\* BeforeEndY compares in pixels
LevelRows(lvl) == lvl.width \div TILE_SIZE

\* the view size w and h clamped to the level, and startX and startY, in pixels
\* and tiles
BlockRange(lvl, xView, yView) ==
    [w |-> IF lvl.width * TILE_SIZE - xView < GAME_WIDTH
           THEN lvl.width * TILE_SIZE - xView ELSE GAME_WIDTH,
     h |-> IF lvl.height * TILE_SIZE - yView < GAME_HEIGHT
           THEN lvl.height * TILE_SIZE - yView ELSE GAME_HEIGHT,
     startX |-> IF xView < 0 THEN 0 ELSE xView \div TILE_SIZE,
     startY |-> IF yView < 0 THEN 0 ELSE yView \div TILE_SIZE]

\* x < endX, endX being Math.min(level.rows, startX + w / TILE_SIZE + 1)
BeforeEndX(lvl, range, x) ==
    /\ x < LevelRows(lvl)
    /\ x * TILE_SIZE < range.startX * TILE_SIZE + range.w + TILE_SIZE

\* y < endY, endY being Math.min(level.cols, startY + h / TILE_SIZE + 1)
BeforeEndY(lvl, range, y) ==
    /\ y * TILE_SIZE < lvl.height
    /\ y * TILE_SIZE < range.startY * TILE_SIZE + range.h + TILE_SIZE

\* level.blocks[x + y * level.rows]; outside the array it is undefined
BlockAt(lvl, x, y) ==
    LET i == x + y * LevelRows(lvl)
    IN  i >= 0 /\ i < Len(lvl.blocks) /\ lvl.blocks[i + 1]

\* the loop over the columns of row y, from column x on
RECURSIVE RowSegments(_, _, _, _)
RowSegments(lvl, range, x, y) ==
    IF ~BeforeEndX(lvl, range, x) THEN << >>
    ELSE (IF BlockAt(lvl, x, y) THEN TileEdges(x, y) ELSE << >>)
         \o RowSegments(lvl, range, x + 1, y)

\* the loop over the rows, from row y on
RECURSIVE BlockSegments(_, _, _)
BlockSegments(lvl, range, y) ==
    IF ~BeforeEndY(lvl, range, y) THEN << >>
    ELSE RowSegments(lvl, range, range.startX, y) \o BlockSegments(lvl, range, y + 1)

StartRow(lvl, range) == BlockSegments(lvl, range, range.startY)

\* the segments of the tile revision: the edges of the occupied tiles in
\* view, then the screen border; the view is given in sight units
TileSegments(lvl, xView, yView) ==
    StartRow(lvl, BlockRange(lvl, xView * 80, yView * 80)) \o Segments(xView, yView)

\* the angles, the closest intersects and the sort, over the segments
SightOver(segments, pX, pY) ==
    SortByAngle(Intersects(Angles(Points(segments), pX, pY), pX, pY, segments))

\* getSightPolygon of the tile revision
GetSightPolygonTiles(pX, pY, xView, yView, lvl) ==
    SightOver(TileSegments(lvl, xView, yView), pX, pY)

\* levels the view looks at: one occupied tile, or one square polygon, at
\* pixels 800..960 by 320..480, and the same levels without it
SightLevelTile == TileLevel(1280, 800,
    << FALSE, FALSE, FALSE, FALSE, FALSE, FALSE, FALSE, FALSE,
       FALSE, FALSE, FALSE, FALSE, FALSE, FALSE, FALSE, FALSE,
       FALSE, FALSE, FALSE, FALSE, FALSE, TRUE , FALSE, FALSE,
       FALSE, FALSE, FALSE, FALSE, FALSE, FALSE, FALSE, FALSE,
       FALSE, FALSE, FALSE, FALSE, FALSE, FALSE, FALSE, FALSE >>)
SightLevelNoTile == TileLevel(1280, 800,
    << FALSE, FALSE, FALSE, FALSE, FALSE, FALSE, FALSE, FALSE,
       FALSE, FALSE, FALSE, FALSE, FALSE, FALSE, FALSE, FALSE,
       FALSE, FALSE, FALSE, FALSE, FALSE, FALSE, FALSE, FALSE,
       FALSE, FALSE, FALSE, FALSE, FALSE, FALSE, FALSE, FALSE,
       FALSE, FALSE, FALSE, FALSE, FALSE, FALSE, FALSE, FALSE >>)
SightLevelPolygon == PolygonLevel(<< RectPolygon(800, 320, 960, 480) >>)
SightLevels(r) ==
    IF r = "tiles" THEN {SightLevelTile, SightLevelNoTile}
    ELSE {SightLevelPolygon, PolyLevelEmpty}

\* the occluder in sight units: left, top, right, bottom
Occluder == [l |-> 10, t |-> 4, r |-> 12, b |-> 6]

\* the camera's view, and the points the rays are cast from: inside the view
\* and up to one unit outside it, on none of the lines of the screen border
\* and of the occluder's edges
View == <<0, 0>>
Origins ==
    { o \in (-1..(ViewWidth + 1)) \X (-1..(ViewHeight + 1)) :
        /\ o[1] \notin {0, ViewWidth, Occluder.l, Occluder.r}
        /\ o[2] \notin {0, ViewHeight, Occluder.t, Occluder.b} }

\* the segments the revision in use collects for the level
SightSegments ==
    IF rev = "tiles" THEN TileSegments(level, View[1], View[2])
    ELSE Segments(View[1], View[2])

\* frames drawn
MaxFrames == 1

\* where the player's centre is a frame later: one or two units along an axis
Moves == { m \in (-2..2) \X (-2..2) : (m[1] = 0) # (m[2] = 0) }

\* drawLights: one frame with the player's centre at o
DrawLights(o) ==
    /\ frames < MaxFrames
    /\ <<o[1] - origin[1], o[2] - origin[2]>> \in Moves
    /\ frames' = frames + 1
    /\ origin' = o
    /\ sight' = IF rev = "tiles"
                THEN GetSightPolygonTiles(o[1], o[2], View[1], View[2], level)
                ELSE GetSightPolygon(o[1], o[2], View[1], View[2])
    /\ UNCHANGED <<playerVars, serverVars, loopVars, entityVars, rayVars, lobbyVars>>

InitSight ==
    /\ origin \in Origins
    /\ sight = << >>
    /\ frames = 0
    /\ LoopIdle /\ ServerIdle /\ EntitiesIdle /\ RayIdle /\ LobbyIdle
    /\ rev \in {"tiles", "polygons"}
    /\ alive = TRUE
    /\ level \in SightLevels(rev)
    /\ dt = TIMESTEP_DEN
    /\ pos = VecPx(0, 0)
    /\ prev = pos
    /\ input = 0
    /\ dir = Dir2(0)
    /\ ticks = 0

NextSight == \E o \in Origins : DrawLights(o)

SpecSight == InitSight /\ [][NextSight]_vars

\* the intersects of the ray cast at an angle with the segments of the view
Hits(angle) ==
    { GetIntersection(Ray(origin[1], origin[2], angle), SightSegments[j]) :
        j \in 1..Len(SightSegments) } \ {NoIntersect}

\* the angles the rays are cast at
CastAngles ==
    LET angles == Angles(Points(SightSegments), origin[1], origin[2])
    IN  { angles[i] : i \in 1..Len(angles) }

DirectionMatches(vertex) ==
    LET dx == FPlus(EInt(-origin[1]), vertex.x)
        dy == FPlus(EInt(-origin[2]), vertex.y)
        c == Cos(vertex.angle)
        s == Sin(vertex.angle)
    IN  /\ ESign(dx.d) > 0 /\ ESign(dy.d) > 0
        /\ ESign(ESub(EMul(EMul(dx.n, dy.d), s), EMul(EMul(dy.n, dx.d), c))) = 0
        /\ ESign(dx.n) = ESign(c)
        /\ ESign(dy.n) = ESign(s)

OriginInside ==
    /\ origin[1] > View[1] /\ origin[1] < View[1] + ViewWidth
    /\ origin[2] > View[2] /\ origin[2] < View[2] + ViewHeight

\* the level has no polygon and no occupied tile
NoOccluder == level \in {SightLevelNoTile, PolyLevelEmpty}

ViewCorners ==
    { <<View[1], View[2]>>, <<View[1] + ViewWidth, View[2]>>,
      <<View[1] + ViewWidth, View[2] + ViewHeight>>, <<View[1], View[2] + ViewHeight>> }

\* the angles in the order the rays are cast
CastSequence == Angles(Points(SightSegments), origin[1], origin[2])

\* a coordinate equals c up to a multiple of the angle offset
Near(f, c) == f.d.re # 0 /\ f.n.re = c * f.d.re

AtPoint(vertex, c) == Near(vertex.x, c[1]) /\ Near(vertex.y, c[2])

\* C21: from an origin inside a view without occluders no ray is dropped, and
\* the vertices of the polygon are, up to the angle offset, the four corners
\* of the view
C21_EmptyViewCorners ==
    (frames > 0 /\ OriginInside /\ NoOccluder) =>
        /\ Len(sight) = Len(CastSequence)
        /\ \A i \in 1..Len(sight) : \E c \in ViewCorners : AtPoint(sight[i], c)
        /\ \A c \in ViewCorners : \E i \in 1..Len(sight) : AtPoint(sight[i], c)

\* a frame drawn from inside an empty view: three rays for each corner
C21_Witness ==
    /\ frames > 0 /\ OriginInside /\ NoOccluder
    /\ Len(CastSequence) = 3 * Len(Segments(View[1], View[2]))
    /\ Len(sight) = Len(CastSequence)

\* the level holds the square occluder
HasOccluder == level \in {SightLevelTile, SightLevelPolygon}

\* the origin faces one side of the occluder squarely: it lies in the band of
\* the occluder's rows or of its columns
FacesOccluder ==
    \/ origin[2] > Occluder.t /\ origin[2] < Occluder.b
    \/ origin[1] > Occluder.l /\ origin[1] < Occluder.r

\* the two corners of the side the origin faces
NearCorners ==
    IF origin[2] > Occluder.t /\ origin[2] < Occluder.b
    THEN IF origin[1] < Occluder.l
         THEN {<<Occluder.l, Occluder.t>>, <<Occluder.l, Occluder.b>>}
         ELSE {<<Occluder.r, Occluder.t>>, <<Occluder.r, Occluder.b>>}
    ELSE IF origin[2] < Occluder.t
         THEN {<<Occluder.l, Occluder.t>>, <<Occluder.r, Occluder.t>>}
         ELSE {<<Occluder.l, Occluder.b>>, <<Occluder.r, Occluder.b>>}

\* the k-th vertex around the polygon, counted cyclically
Around(k) == sight[((k - 1) % Len(sight)) + 1]

\* the coordinate f lies between lo and hi
Within(f, lo, hi) ==
    /\ f.d.re # 0
    /\ IF f.d.re > 0
       THEN lo * f.d.re <= f.n.re /\ f.n.re <= hi * f.d.re
       ELSE lo * f.d.re >= f.n.re /\ f.n.re >= hi * f.d.re

\* the vertex lies on the side of the occluder between the two near corners
OnNearSide(vertex) ==
    /\ \E c \in NearCorners : \E e \in NearCorners : Within(vertex.x, c[1], e[1])
    /\ \E c \in NearCorners : \E e \in NearCorners : Within(vertex.y, c[2], e[2])

\* C22: with the square occluder between the origin and the edge of the view,
\* the polygon runs from one near corner of the occluder to the other along
\* its near side: both corners are vertices and every vertex between them
\* lies on that side, none on the far border of the view
C22_OccluderNotch ==
    (frames > 0 /\ OriginInside /\ HasOccluder /\ FacesOccluder) =>
        \E i \in 1..Len(sight) :
            \E n \in 1..(Len(sight) - 1) :
                /\ \E c \in NearCorners :
                       /\ AtPoint(Around(i), c)
                       /\ \E e \in NearCorners \ {c} : AtPoint(Around(i + n), e)
                /\ \A m \in 0..n : OnNearSide(Around(i + m))

----------------------------------------------------------------------------
(* getIntersection and Vector2.normalize on their own *)

\* the points the probed rays and segments run between
ProbePoints == (0..2) \X (0..2)

\* a ray has a direction; a segment may join two coincident vertices
ProbeRays ==
    { Segment(e[1][1], e[1][2], e[2][1], e[2][2]) :
        e \in { q \in ProbePoints \X ProbePoints : q[1] # q[2] } }

ProbeSegments ==
    { Segment(a[1], a[2], b[1], b[2]) : a \in ProbePoints, b \in ProbePoints }

\* Vector2.length of a vector with a zero component
AxisLength(x, y) == AbsInt(x) + AbsInt(y)

\* Vector2.normalize of such a vector: both components over the length
Vector2Normalize(x, y) ==
    [x |-> Frac(EInt(x), EInt(AxisLength(x, y))),
     y |-> Frac(EInt(y), EInt(AxisLength(x, y)))]

\* segment.b - segment.a
EdgeX(s) == s.b.x.re - s.a.x.re
EdgeY(s) == s.b.y.re - s.a.y.re

\* getIntersection(ray, segment) is called
CastRay ==
    /\ "getIntersection" \notin applied
    /\ applied' = applied \cup {"getIntersection"}
    /\ probeIntersect' = GetIntersection(probeRay, probeSegment)
    /\ UNCHANGED <<probeRay, probeSegment, probeNormal>>
    /\ UNCHANGED <<playerVars, serverVars, loopVars, entityVars, sightVars, lobbyVars>>

\* resolveCollision normalizes the normal of the edge the segment is
NormalizeEdge ==
    /\ "normalize" \notin applied
    /\ EdgeX(probeSegment) = 0 \/ EdgeY(probeSegment) = 0
    /\ applied' = applied \cup {"normalize"}
    /\ probeNormal' = Vector2Normalize(-EdgeY(probeSegment), EdgeX(probeSegment))
    /\ UNCHANGED <<probeRay, probeSegment, probeIntersect>>
    /\ UNCHANGED <<playerVars, serverVars, loopVars, entityVars, sightVars, lobbyVars>>

InitRay ==
    /\ probeRay \in ProbeRays
    /\ probeSegment \in ProbeSegments
    /\ probeIntersect = << >>
    /\ probeNormal = << >>
    /\ applied = {}
    /\ LoopIdle /\ ServerIdle /\ EntitiesIdle /\ SightIdle /\ LobbyIdle
    /\ rev = "tiles"
    /\ alive = TRUE
    /\ level = NoLevel
    /\ dt = TIMESTEP_DEN
    /\ pos = VecPx(0, 0)
    /\ prev = pos
    /\ input = 0
    /\ dir = Dir2(0)
    /\ ticks = 0

NextRay == CastRay \/ NormalizeEdge

SpecRay == InitRay /\ [][NextRay]_vars

\* the ray and the segment have directions, and these are parallel
Parallel ==
    /\ EdgeX(probeRay) # 0 \/ EdgeY(probeRay) # 0
    /\ EdgeX(probeSegment) # 0 \/ EdgeY(probeSegment) # 0
    /\ EdgeX(probeRay) * EdgeY(probeSegment) = EdgeY(probeRay) * EdgeX(probeSegment)

\* the ray and the segment point the opposite way along one line
OppositeOnOneLine ==
    /\ Parallel
    /\ EdgeX(probeRay) * EdgeX(probeSegment) + EdgeY(probeRay) * EdgeY(probeSegment) < 0
    /\ EdgeX(probeRay) * (probeSegment.a.y.re - probeRay.a.y.re)
         = EdgeY(probeRay) * (probeSegment.a.x.re - probeRay.a.x.re)

\* the quotient has a zero denominator
ByZero(f) == ESign(f.d) = 0

\* C23: for a ray parallel to the segment (same direction, opposite direction
\* or on one line with it) getIntersection returns null, so no point computed
\* with a zero denominator is returned
C23_ParallelIsNull ==
    ("getIntersection" \in applied /\ Parallel) => ~probeIntersect.hit

\* C24: no division by zero reaches a result: the normal of an edge between two
\* coincident vertices is a vector of numbers, and a vertical ray gets no
\* intersect or one whose coordinates and parameter are finite
C24_DivisionsGuarded ==
    /\ ("normalize" \in applied) =>
           ~ByZero(probeNormal.x) /\ ~ByZero(probeNormal.y)
    /\ ("getIntersection" \in applied /\ EdgeX(probeRay) = 0 /\ probeIntersect.hit) =>
           /\ ~ByZero(probeIntersect.x)
           /\ ~ByZero(probeIntersect.y)
           /\ ~ByZero(probeIntersect.param)

----------------------------------------------------------------------------
(* The lobby and the rounds of the server *)

\* the step handles a join of socket id: it alone emits returnPlayer
JoinStep(id) ==
    /\ received' = received + 1
    /\ Len(emitted') = 2
    /\ emitted'[1] = Msg("returnPlayer", id)

\* C25: a player who joins while gameStarted is true is stored as a dead
\* spectator; one who joins while it is false is stored alive with role NONE
C25_JoinRole ==
    [][\A id \in SocketIds :
          JoinStep(id) =>
              /\ id \in DOMAIN players'
              /\ gameStarted => (players'[id].role = ROLE_SPEC /\ ~players'[id].alive)
              /\ ~gameStarted => (players'[id].role = ROLE_NONE /\ players'[id].alive)]_vars

\* a join has been handled during a started game, its player is a spectator
C25_Witness ==
    /\ gameStarted
    /\ Len(emitted) = 2
    /\ \E id \in DOMAIN players :
           /\ emitted[1] = Msg("returnPlayer", id)
           /\ players[id] = [role |-> ROLE_SPEC, alive |-> FALSE]

\* the step starts the countdown: gameLoading is set, starting is emitted and
\* one more startGame is scheduled
CountdownStarts ==
    /\ gameLoading'
    /\ startTimeouts' = startTimeouts + 1
    /\ Len(emitted') > 0
    /\ emitted'[Len(emitted')] = Msg("starting", << >>)

\* C26: a ready event starts the countdown if and only if, after the event,
\* there are at least two players and the role of every player is READY; no
\* other step starts it
C26_CountdownIffAllReady ==
    [][/\ \A id \in SocketIds : \A ready \in BOOLEAN :
             Ready(id, ready) =>
                 (CountdownStarts <=>
                     /\ Cardinality(DOMAIN players') >= 2
                     /\ \A k \in DOMAIN players' : players'[k].role = ROLE_READY)
       /\ CountdownStarts =>
             \E id \in SocketIds : \E ready \in BOOLEAN : Ready(id, ready)]_vars

\* the second of two players has sent ready and the countdown runs
C26_Witness ==
    /\ gameLoading /\ startTimeouts = 1
    /\ emitted = << Msg("updateLobby", players), Msg("starting", << >>) >>
    /\ Cardinality(DOMAIN players) = 2
    /\ \A k \in DOMAIN players : players[k].role = ROLE_READY

\* the step is a firing of setTimeout(startGame, 3000)
StartGameStep == startTimeouts' = startTimeouts - 1

\* C27: right after startGame has run on a non-empty player table exactly one
\* player is SEEK, all others are HIDE, every player is at the start position
\* of the level, gameStarted is true and gameLoading is false
C27_StartGameRoles ==
    [][(StartGameStep /\ DOMAIN players # {}) =>
          /\ Cardinality({id \in DOMAIN players' : players'[id].role = ROLE_SEEK}) = 1
          /\ \A id \in DOMAIN players' : players'[id].role \in {ROLE_SEEK, ROLE_HIDE}
          /\ \A id \in DOMAIN players' :
                 id \in DOMAIN playersPositions' /\ playersPositions'[id] = LevelStart
          /\ DOMAIN players' = DOMAIN players
          /\ gameStarted'
          /\ ~gameLoading']_vars

\* startGame has just run for two players
C27_Witness ==
    /\ emitted = << Msg("gameStarted", << >>), Msg("updateLobby", players) >>
    /\ Cardinality(DOMAIN players) = 2
    /\ gameStarted
    /\ \E id \in DOMAIN players : players[id].role = ROLE_HIDE

\* the step is a firing of setTimeout(restartLobby, 10000)
RestartLobbyStep == restartTimeouts' = restartTimeouts - 1

\* the step ends the round: endGame has run
GameEnds ==
    /\ ~gameStarted'
    /\ serverLevel' = NoLevel
    /\ Len(emitted') > 0
    /\ emitted'[Len(emitted')] = Msg("gameEnded", FALSE)
    /\ restartTimeouts' = restartTimeouts + 1

\* C28: a kill of a joined player during a started round makes the player a
\* dead spectator; if no HIDE player is left the round ends (gameStarted
\* false, level cleared, gameEnded emitted) and restartLobby is scheduled; when
\* restartLobby fires every player left is reset to role NONE and alive
C28_KillEndsRound ==
    [][/\ \A id \in SocketIds :
             (Kill(id) /\ PlayerExists(id) /\ gameStarted) =>
                 /\ players'[id] = [role |-> ROLE_SPEC, alive |-> FALSE]
                 /\ (\A k \in DOMAIN players' : players'[k].role # ROLE_HIDE) => GameEnds
       /\ RestartLobbyStep =>
             /\ DOMAIN players' = DOMAIN players
             /\ \A k \in DOMAIN players' : players'[k] = [role |-> ROLE_NONE, alive |-> TRUE]]_vars

\* the last hider of a started round has just been killed
C28_Witness ==
    /\ ~gameStarted /\ serverLevel = NoLevel /\ restartTimeouts = 1
    /\ emitted = << Msg("updateLobby", players), Msg("gameEnded", FALSE) >>
    /\ \E id \in DOMAIN players : players[id].role = ROLE_SEEK
    /\ \E id \in DOMAIN players : players[id] = [role |-> ROLE_SPEC, alive |-> FALSE]

\* the step is the disconnect of socket id, the only joined player
LastDisconnect(id) ==
    /\ id \in sockets
    /\ sockets' = sockets \ {id}
    /\ DOMAIN players = {id}

\* C29: when the last joined player disconnects the server is back in its
\* initial state: the three tables are empty, the level is null, gameStarted
\* and gameLoading are false and the interval of the physics sweep is stopped
C29_LastDisconnectResets ==
    [][\A id \in SocketIds :
          LastDisconnect(id) =>
              /\ DOMAIN players' = {}
              /\ DOMAIN playersInputs' = {}
              /\ DOMAIN playersPositions' = {}
              /\ serverLevel' = NoLevel
              /\ ~gameStarted'
              /\ ~gameLoading'
              /\ intervals' = 0
              /\ gameLoop' = "cleared"]_vars

\* the only player left has disconnected after the interval had fired, and
\* the server has reset
C29_Witness ==
    /\ DOMAIN players = {} /\ serverLevel = NoLevel /\ ~gameStarted /\ ~gameLoading
    /\ gameLoop = "cleared" /\ intervals = 0
    /\ emitted = << Msg("updateLobby", << >>) >>
    /\ fired > 0 /\ received >= 2

----------------------------------------------------------------------------
(* The client's lobby: the returnPlayer and updateLobby handlers *)

\* the socket ids of the lobby: the client's socket is "a" and, once it has
\* reconnected, "c"; "b" is another player's
LobbyIds == {"a", "b", "c"}

\* the name a player joins with
NameOf(id) == IF id = "b" THEN "bob" ELSE "ann"

Roles == {ROLE_NONE, ROLE_READY, ROLE_HIDE, ROLE_SEEK, ROLE_SPEC}

\* the server's players as updateLobby carries them
LobbyPlayer(id, role, isAlive) == [name |-> NameOf(id), role |-> role, alive |-> isAlive]

\* number of updateLobby messages handled
MaxLobbies == 3

\* the tables one handler of the server turns table into before it emits
\* updateLobby: join, disconnect, ready, kill, startGame, restartLobby
Broadcasts(table) ==
    { Put(table, id, LobbyPlayer(id, ROLE_NONE, TRUE)) : id \in LobbyIds }
    \cup { Put(table, id, LobbyPlayer(id, ROLE_SPEC, FALSE)) : id \in LobbyIds }
    \cup { Delete(table, id) : id \in DOMAIN table }
    \cup { [table EXCEPT ![id].role = ROLE_READY] : id \in DOMAIN table }
    \cup { [table EXCEPT ![id].role = ROLE_NONE] : id \in DOMAIN table }
    \cup { [table EXCEPT ![id].role = ROLE_SPEC, ![id].alive = FALSE] : id \in DOMAIN table }
    \cup { [id \in DOMAIN table |-> [table[id] EXCEPT !.role = Assigned(id, randomId)]] :
             randomId \in DOMAIN table }
    \cup { [id \in DOMAIN table |-> LobbyPlayer(id, ROLE_NONE, TRUE)] }

\* role and alive as the server's handlers leave them: a spectator is dead
PlayerStates == { st \in Roles \X BOOLEAN : st[1] = ROLE_SPEC => ~st[2] }

\* the tables the server may hold when a socket connects
Lobbies ==
    UNION { { [id \in ids |-> LobbyPlayer(id, st[id][1], st[id][2])] :
                st \in [ids -> PlayerStates] } :
            ids \in SUBSET LobbyIds }

\* new Player(username, role, socketId, player, alive)
NewPlayer(username, role, player, isAlive) ==
    [x |-> 0, y |-> 0, username |-> username, role |-> role,
     player |-> player, alive |-> isAlive]

\* a known entity after the handler has written name, role and alive of the
\* lobby to it; kill() makes it a dead spectator
Updated(entity, p) ==
    [entity EXCEPT !.username = p.name,
                   !.role = IF entity.alive /\ ~p.alive THEN ROLE_SPEC ELSE p.role,
                   !.alive = p.alive]

\* socket.on('returnPlayer')
ReturnPlayer(role, isAlive) ==
    /\ fresh
    /\ clientSocketId \notin DOMAIN entities
    /\ entities' = Put(entities, clientSocketId,
                       NewPlayer(NameOf(clientSocketId), role, TRUE, isAlive))
    /\ UNCHANGED <<positions, handled>>
    /\ UNCHANGED lobbyVars
    /\ UNCHANGED <<playerVars, serverVars, loopVars, sightVars, rayVars>>

\* socket.on('updateLobby')
UpdateLobby(lobbyPlayers) ==
    /\ lobbies < MaxLobbies
    /\ lobbies' = lobbies + 1
    /\ updatedLobby' = lobbyPlayers
    /\ fresh' = FALSE
    /\ entities' =
           [id \in { k \in DOMAIN lobbyPlayers : k \in DOMAIN entities \/ k # clientSocketId } |->
               IF id \in DOMAIN entities
               THEN Updated(entities[id], lobbyPlayers[id])
               ELSE NewPlayer(lobbyPlayers[id].name, lobbyPlayers[id].role, FALSE,
                              lobbyPlayers[id].alive)]
    /\ UNCHANGED <<positions, handled, clientSocketId>>
    /\ UNCHANGED <<playerVars, serverVars, loopVars, sightVars, rayVars>>

\* the socket reconnects under a new id: the connect handler runs again
Reconnect ==
    /\ ~fresh
    /\ clientSocketId = "a"
    /\ clientSocketId' = "c"
    /\ fresh' = TRUE
    /\ UNCHANGED <<updatedLobby, lobbies>>
    /\ UNCHANGED <<playerVars, serverVars, loopVars, entityVars, sightVars, rayVars>>

\* the join handler emits returnPlayer and updateLobby together: a table the
\* client sees first holds its own player, as returned, once it has joined
Joins(table) ==
    IF clientSocketId \in DOMAIN entities
    THEN /\ clientSocketId \in DOMAIN table
         /\ table[clientSocketId].role = entities[clientSocketId].role
         /\ table[clientSocketId].alive = entities[clientSocketId].alive
    ELSE clientSocketId \notin DOMAIN table

\* the messages that may come next: any table of the server right after the
\* socket has connected, then one broadcast for each change of the table
NextLobbies ==
    IF fresh THEN { table \in Lobbies : Joins(table) } ELSE Broadcasts(updatedLobby)

InitLobby ==
    /\ LobbyIdle
    /\ LoopIdle /\ ServerIdle /\ EntitiesIdle /\ SightIdle /\ RayIdle
    /\ rev = "tiles"
    /\ alive = TRUE
    /\ level = NoLevel
    /\ dt = TIMESTEP_DEN
    /\ pos = VecPx(0, 0)
    /\ prev = pos
    /\ input = 0
    /\ dir = Dir2(0)
    /\ ticks = 0

NextLobby ==
    \/ \E isAlive \in BOOLEAN :
           ReturnPlayer(IF isAlive THEN ROLE_NONE ELSE ROLE_SPEC, isAlive)
    \/ \E lobbyPlayers \in NextLobbies : UpdateLobby(lobbyPlayers)
    \/ Reconnect

SpecLobby == InitLobby /\ [][NextLobby]_vars

\* C30: after an updateLobby message is handled every id of the entity table
\* is an id of the lobby received, every id of the lobby but the client's own
\* is in the table, and name, role and alive of each entity are those received
C30_LobbyMirrored ==
    lobbies > 0 /\ ~fresh =>
        /\ DOMAIN entities \subseteq DOMAIN updatedLobby
        /\ DOMAIN updatedLobby \ {clientSocketId} \subseteq DOMAIN entities
        /\ \A id \in DOMAIN entities :
               /\ entities[id].username = updatedLobby[id].name
               /\ entities[id].role = updatedLobby[id].role
               /\ entities[id].alive = updatedLobby[id].alive

\* C31: an input event from a socket without a player leaves the server's
\* state as it is and emits no updateInputs; one from a socket with a player
\* changes nothing but that socket's entry of playersInputs
C31_InputOnlyOwnEntry ==
    [][\A id \in SocketIds : \A m \in ServerMasks :
          Input(id, m) =>
              /\ UNCHANGED <<sockets, players, playersPositions, serverLevel,
                             gameStarted, gameLoading, intervals, gameLoop,
                             startTimeouts, restartTimeouts>>
              /\ DOMAIN playersInputs' = DOMAIN playersInputs
              /\ \A k \in DOMAIN playersInputs \ {id} : playersInputs'[k] = playersInputs[k]
              /\ IF PlayerExists(id)
                 THEN playersInputs'[id] = m
                 ELSE /\ playersInputs' = playersInputs
                      /\ \A i \in 1..Len(emitted') : emitted'[i].event # "updateInputs"]_vars

\* an input of one of two players has been stored and broadcast, the other
\* player's input is as it was
C31_Witness ==
    /\ Len(emitted) = 1
    /\ emitted[1] = Msg("updateInputs", playersInputs)
    /\ DOMAIN playersInputs = SocketIds
    /\ \E id \in SocketIds : playersInputs[id] = 0
    /\ \E id \in SocketIds : playersInputs[id] # 0

\* C32: a firing of the tick timer while gameLoading is true changes no
\* player's position
C32_CountdownFreezes ==
    [][(fired' = fired + 1 /\ gameLoading) => playersPositions' = playersPositions]_vars

\* the timer has just fired during the countdown of two players, one of them
\* alive with a direction held
C32_Witness ==
    /\ gameLoading /\ startTimeouts > 0 /\ fired > 0
    /\ emitted = << >>
    /\ sockets = SocketIds /\ DOMAIN players = SocketIds
    /\ \E id \in DOMAIN players : players[id].alive /\ playersInputs[id] = INPUT_RIGHT

\* the polygon list in the opposite order
Reversed(polygons) == [i \in 1..Len(polygons) |-> polygons[Len(polygons) + 1 - i]]

\* C33: the corrected end position returned by broadPhaseCollisionDetection is
\* the same when the polygons of the list are visited in the opposite order
C33_OrderIndependent ==
    (Stepped1 /\ PolygonBranch) =>
        BroadPhaseCollisionDetection(prev, Attempted, Reversed(level.polygons)) = pos

\* a step against two polygons that both collide with the end box and push
\* the player by different vectors
C33_Witness ==
    /\ Stepped1 /\ PolygonBranch /\ Len(level.polygons) = 2
    /\ LET first  == PolygonMtv(Collider(prev), Collider(Attempted), level.polygons[1])
           second == PolygonMtv(Collider(prev), Collider(Attempted), level.polygons[2])
       IN  /\ first # Vec(Zero, Zero)
           /\ second # Vec(Zero, Zero)
           /\ first # second
           /\ pos = VAdd(VAdd(Attempted, first), second)

\* the state resetServer leaves: no game, no countdown, no level
LobbyState == ~gameStarted /\ ~gameLoading /\ serverLevel = NoLevel

\* C34: a server without players (it has just been constructed, or the last
\* player left and resetServer ran) is in the lobby state, and stays there:
\* a ready-check needs two players, so nothing starts a game before a join
C34_ResetStaysInLobby == DOMAIN players = {} => LobbyState

\* the ready handler called setTimeout(startGame, 3000) in this step
StartGameScheduled == startTimeouts' = startTimeouts + 1

\* C35: a startGame is scheduled only from the lobby, never while a countdown
\* is pending or a game is running, so no second startGame can follow one
\* ready-check
C35_OneStartPerReadyCheck ==
    [][StartGameScheduled => (~gameLoading /\ ~gameStarted)]_vars

\* C36: while a game is running every player is a hider, the seeker or a
\* spectator; no role is READY or NONE
C36_RolesDuringGame ==
    gameStarted =>
        \A id \in DOMAIN players : players[id].role \in {ROLE_HIDE, ROLE_SEEK, ROLE_SPEC}

====
